---- MODULE Spec2Model ----
(***************************************************************************)
(* Model of the Space_OdT v2.1 provisioning engine (V21Runner): the action *)
(* planner (_build_plan / load_plan_rows), the action executor             *)
(* (run_single_action, _read_current_state, _apply_action and the ID       *)
(* resolvers) and the batch run (run).                                     *)
(*                                                                         *)
(* Python values are modelled as strings: None is the string "None", and a *)
(* value is truthy when it is neither None, "" nor "False".                *)
(***************************************************************************)
EXTENDS Integers, Sequences, FiniteSets, TLC

VARIABLES
    locations,      \* rows of input_locations.csv, as loaded by load_locations
    users,          \* rows of input_users.csv, as loaded by load_users
    workspaces,     \* rows of input_workspaces.csv, as loaded by load_workspaces
    policy,         \* static_policy.json, as loaded by load_policy
    plan_rows,      \* what the last load_plan_rows() returned
    planned,        \* TRUE once load_plan_rows() has returned
    remote,         \* the state held by the remote platform (the SDK's far side)
    action_state,   \* v21/action_state.json
    run_state,      \* v21/run_state.json
    plan_csv,       \* v21/plan.csv
    ret,            \* outcome of the last run_single_action() call
    run,            \* the run() call in progress or last finished
    ops,            \* number of top-level calls made so far
    faults,         \* number of SDK calls the environment has made raise so far
    action_payload, \* the payload dict of one planned action, as the resolvers share it
    input_files,    \* the input files present in <out>/v21
    invoke,         \* the _invoke_with_retry_after call in progress or last finished
    export,         \* the export_runner.run_exports call in progress or last finished
    cli,            \* the SpaceOdT CLI: the process environment, the output directory, the last call
    http,           \* the v21 UI Handler: the requests served so far and the last exchange
    v2,             \* the V2 engine call (_build_stages, parse_stage_decision) in progress or last finished
    config,         \* the SpaceOdT configuration object being serialized
    desvio,         \* the configurar_desvio_prefijo53_usuario calls made and the last one's outcome
    jobs            \* the jobs of the UI, the requests that start them and their background threads

inputVars == <<locations, users, workspaces, policy>>
planVars == <<plan_rows, planned>>
execVars == <<remote, action_state, run_state, plan_csv, ret, run, ops, faults>>
resolveVars == <<action_payload>>
fileVars == <<input_files>>
toolVars == <<invoke, export, cli, http, v2, config, desvio, jobs>>
vars == <<locations, users, workspaces, policy, plan_rows, planned,
          remote, action_state, run_state, plan_csv, ret, run, ops, faults, action_payload,
          input_files, invoke, export, cli, http, v2, config, desvio, jobs>>

\* ------------------------------------------------------------------ values

None == "None"

\* Python truthiness of a str | bool | None value
Truthy(x) == x \notin {None, "", "False"}

\* a or b
Or(a, b) == IF Truthy(a) THEN a ELSE b

\* dict.get(key): None when the key is absent
Get(payload, key) == IF key \in DOMAIN payload THEN payload[key] ELSE None

\* payload[key] = value
Put(payload, key, value) ==
    [k \in DOMAIN payload \cup {key} |-> IF k = key THEN value ELSE payload[k]]

RECURSIVE Flatten(_)
Flatten(ss) == IF ss = <<>> THEN <<>> ELSE Head(ss) \o Flatten(Tail(ss))

\* str.strip() of one field: a blank field strips to the empty string
Strip(item) == IF item \in {"", " ", "  "} THEN "" ELSE item

\* V21Runner._split_pipe. The raw cell 'a|b' is held as its '|'-separated fields
\* <<"a", "b">>; None and the empty cell are <<>>.
SplitPipe(raw) ==
    IF raw = <<>> THEN <<>>
    ELSE SelectSeq([i \in 1..Len(raw) |-> Strip(raw[i])], LAMBDA item : item # "")

\* ------------------------------------------------------------------ bounds

MaxLocations == 2
MaxUsers == 2
MaxWorkspaces == 2

\* ------------------------------------------------------------------ input records

\* A location row: the attributes the planner reads and the payload mapping.
LocationRecord(id, name, numbers, profile, dialing) ==
    [ location_id |-> id,
      location_name |-> name,
      default_outgoing_profile |-> profile,
      payload |-> [ location_id |-> id,
                    location_name |-> name,
                    route_group_id |-> None,
                    route_group_name |-> "RG-PSTN",
                    location_numbers |-> numbers,
                    main_number |-> IF SplitPipe(numbers) = <<>> THEN "" ELSE Head(SplitPipe(numbers)),
                    internal_dialing_enabled |-> dialing ] ]

UserRecord(id, email, profile) ==
    [ user_id |-> id,
      user_email |-> email,
      outgoing_profile |-> profile,
      payload |-> [ user_id |-> id,
                    user_email |-> email,
                    legacy_secondary_number |-> "5551",
                    extension |-> <<"8", "1", "2", "3">>,
                    outgoing_profile |-> profile ] ]

WorkspaceRecord(id, name, profile) ==
    [ workspace_id |-> id,
      workspace_name |-> name,
      outgoing_profile |-> profile,
      payload |-> [ workspace_id |-> id,
                    workspace_name |-> name,
                    legacy_secondary_number |-> "5552",
                    extension |-> <<" ", "4", "1", "2">>,
                    outgoing_profile |-> profile ] ]

PlanLocationRecords ==
    { LocationRecord(None, "Madrid", <<>>, None, None),
      LocationRecord(None, "Sevilla", <<"+34910000001", " ", "+34910000002">>, "profile_3", "True"),
      LocationRecord("loc-9", "Vigo", <<"+34910000009">>, None, "False") }

PlanUserRecords ==
    { UserRecord(None, "ana@example.com", None),
      UserRecord(None, "ana@example.com", "profile_2"),
      UserRecord(None, "luis@example.com", "profile_3"),
      UserRecord("person-9", "eva@example.com", "") }

PlanWorkspaceRecords ==
    { WorkspaceRecord(None, "Sala 1", None),
      WorkspaceRecord(None, "Sala 2", "profile_2"),
      WorkspaceRecord("ws-9", "Sala 3", "profile_3") }

Policies ==
    { [ default_outgoing_profile |-> "profile_2", outgoing_profiles |-> {"profile_2", "profile_3"} ],
      [ default_outgoing_profile |-> None, outgoing_profiles |-> {"profile_2"} ] }

LocationKey(location) == Or(location.location_id, location.location_name)
UserKey(user) == Or(user.user_id, user.user_email)
WorkspaceKey(workspace) == Or(workspace.workspace_id, workspace.workspace_name)

\* sequences of at most n records of S
SeqsUpTo(S, n) == UNION { [1..k -> S] : k \in 0..n }

DistinctKeys(rows, Key(_)) ==
    \A i, j \in 1..Len(rows) : i # j => Key(rows[i]) # Key(rows[j])

\* ------------------------------------------------------------------ planner

PlannedAction(entity_type, entity_key, stage, mode, details, payload) ==
    [ entity_type |-> entity_type, entity_key |-> entity_key, stage |-> stage,
      mode |-> mode, details |-> details, payload |-> payload ]

LocationStages ==
    << "LOCATION_CREATE_AND_ACTIVATE", "LOCATION_ROUTE_GROUP_RESOLVE", "LOCATION_PSTN_CONFIGURE",
       "LOCATION_NUMBERS_ADD_DISABLED", "LOCATION_MAIN_DDI_ASSIGN",
       "LOCATION_INTERNAL_CALLING_CONFIG", "LOCATION_OUTGOING_PERMISSION_DEFAULT" >>

LocationDetails ==
    << "Crear/activar sede y preparar Webex Calling", "Resolver routeGroupId requerido para PSTN",
       "Configurar PSTN en sede", "Alta de DDI en estado desactivado",
       "Asignar DDI cabecera a la sede", "Configurar llamadas internas",
       "Aplicar perfil saliente por defecto" >>

\* faulty variant: the numbers-add action is planned only for a location that supplies numbers
LocationActionsOnlyWithNumbers(location, pol) ==
    LET location_key == LocationKey(location)
        outgoing == Or(Or(location.default_outgoing_profile, pol.default_outgoing_profile), "profile_2")
        base_payload == Put(location.payload, "default_outgoing_profile", outgoing)
        stages == SelectSeq(LocationStages,
                            LAMBDA s : s # "LOCATION_NUMBERS_ADD_DISABLED"
                                       \/ SplitPipe(location.payload.location_numbers) # <<>>)
    IN [ i \in 1..Len(stages) |->
           PlannedAction("LOCATION", location_key, stages[i], "apply", <<stages[i]>>, base_payload) ]

\* faulty variant: PSTN is configured before the route group is resolved
LocationActionsSwapped(location, pol) ==
    LET location_key == LocationKey(location)
        outgoing == Or(Or(location.default_outgoing_profile, pol.default_outgoing_profile), "profile_2")
        base_payload == Put(location.payload, "default_outgoing_profile", outgoing)
        swap == [i \in 1..7 |-> IF i = 2 THEN 3 ELSE IF i = 3 THEN 2 ELSE i]
    IN [ i \in 1..7 |->
           PlannedAction("LOCATION", location_key, LocationStages[swap[i]], "apply",
                         <<LocationDetails[swap[i]]>>, base_payload) ]

\* the actions of one iteration of `for location in locations`
LocationActions(location, pol) ==
    LET location_key == LocationKey(location)
        outgoing == Or(Or(location.default_outgoing_profile, pol.default_outgoing_profile), "profile_2")
        base_payload == Put(location.payload, "default_outgoing_profile", outgoing)
    IN [ i \in 1..7 |->
           PlannedAction("LOCATION", location_key, LocationStages[i], "apply",
                         IF i = 7 THEN <<LocationDetails[i], outgoing>> ELSE <<LocationDetails[i]>>,
                         base_payload) ]

\* faulty variant: base_payload is location.payload itself, not a copy of it
LocationAfterPlanAliased(location, pol) ==
    [ location EXCEPT !.payload =
        Put(@, "default_outgoing_profile",
            Or(Or(location.default_outgoing_profile, pol.default_outgoing_profile), "profile_2")) ]

\* the location record once its iteration is over: base_payload = dict(location.payload)
\* is a new dict, so the assignment to base_payload['default_outgoing_profile'] does
\* not reach the record
LocationAfterPlan(location, pol) == location

\* the actions of one iteration of `for user in users`
UserActions(user) ==
    LET user_key == UserKey(user)
        base_payload == user.payload
    IN << PlannedAction("USER", user_key, "USER_LEGACY_INTERCOM_SECONDARY", "apply",
                        <<"Agregar intercom legacy secundario">>, base_payload),
          PlannedAction("USER", user_key, "USER_LEGACY_FORWARD_PREFIX_53", "apply",
                        <<"Configurar desvio legacy con prefijo 53">>, base_payload) >>
       \o (IF Truthy(user.outgoing_profile)
           THEN << PlannedAction("USER", user_key, "USER_OUTGOING_PERMISSION_OVERRIDE", "apply",
                                 <<"Aplicar perfil saliente no-default", user.outgoing_profile>>,
                                 base_payload) >>
           ELSE <<>>)

\* the actions of one iteration of `for workspace in workspaces`
WorkspaceActions(workspace) ==
    LET workspace_key == WorkspaceKey(workspace)
        base_payload == workspace.payload
    IN << PlannedAction("WORKSPACE", workspace_key, "WORKSPACE_LEGACY_INTERCOM_SECONDARY", "apply",
                        <<"Agregar intercom legacy secundario">>, base_payload),
          PlannedAction("WORKSPACE", workspace_key, "WORKSPACE_LEGACY_FORWARD_PREFIX_53", "apply",
                        <<"Configurar desvio legacy con prefijo 53">>, base_payload) >>
       \o (IF Truthy(workspace.outgoing_profile)
           THEN << PlannedAction("WORKSPACE", workspace_key, "WORKSPACE_OUTGOING_PERMISSION_OVERRIDE",
                                 "apply",
                                 <<"Aplicar perfil saliente no-default", workspace.outgoing_profile>>,
                                 base_payload) >>
           ELSE <<>>)

\* V21Runner._build_plan
BuildPlan(locs, usrs, wss, pol) ==
    Flatten([i \in 1..Len(locs) |-> LocationActions(locs[i], pol)])
    \o Flatten([i \in 1..Len(usrs) |-> UserActions(usrs[i])])
    \o Flatten([i \in 1..Len(wss) |-> WorkspaceActions(wss[i])])

\* the rows load_plan_rows makes of the planned actions: action_id is enumerate()'s index
PlanRows(locs, usrs, wss, pol) ==
    LET actions == BuildPlan(locs, usrs, wss, pol)
    IN [ i \in 1..Len(actions) |->
           [ action_id |-> i - 1,
             entity_type |-> actions[i].entity_type,
             entity_key |-> actions[i].entity_key,
             stage |-> actions[i].stage,
             mode |-> actions[i].mode,
             details |-> actions[i].details,
             payload |-> actions[i].payload ] ]

\* ------------------------------------------------------------------ remote platform

\* The remote platform holds the entities one plan refers to: the location of the
\* plan's location row (loc_count: how many locations carry its name), whether that
\* location is enabled for calling, whether the route group, the person and the
\* workspace exist, and which settings a mutating call has configured.
NoRemote ==
    [ loc_count |-> 0, calling |-> FALSE, route_group |-> FALSE, person |-> FALSE,
      workspace |-> FALSE, config |-> {} ]

\* the IDs the platform gives its entities
RemoteLocationId == "loc-1"
RemoteRouteGroupId == "rg-1"
RemotePersonId == "person-1"
RemoteWorkspaceId == "ws-1"

\* the SDK calls that change remote state
MutatingCalls ==
    { "locations.create", "telephony.location.enable_for_calling", "telephony.pstn.configure",
      "telephony.location.numbers.add", "telephony.location.update",
      "telephony.location.internal_dialing.update", "telephony.permissions_out.configure",
      "person_settings.numbers.update", "person_settings.forwarding.configure",
      "person_settings.permissions_out.configure", "workspace_settings.numbers.update",
      "workspace_settings.forwarding.configure", "workspace_settings.permissions_out.configure" }

\* the SDK calls that look an entity up by name or email
LookupCalls ==
    { "locations.by_name", "telephony.prem_pstn.route_group.list", "people.list", "workspaces.list" }

\* The execution context a method runs in: the remote state, the action's payload (a
\* dict mutated in place), the log of SDK calls made, the value returned (val) or the
\* exception raised (exc: its str(), None while none was raised) and the number of
\* calls made when it was raised. fail_at is the environment's choice of the SDK call
\* that raises (0: none does).
Ctx(rem, payload, fail_at) ==
    [ remote |-> rem, payload |-> payload, calls |-> <<>>, val |-> None, exc |-> None,
      raised_at |-> 0, fail_at |-> fail_at ]

Failed(c) == c.exc # None
Raise(c, message) == [c EXCEPT !.exc = message, !.raised_at = Len(c.calls)]
Return(c, value) == [c EXCEPT !.val = value]

\* statement sequencing: what follows runs only if nothing was raised
Then(c, Rest(_)) == IF Failed(c) THEN c ELSE Rest(c)

\* one SDK call: it raises when the environment says so (network error, 4xx/5xx)
Call(c, name) ==
    LET c1 == [c EXCEPT !.calls = Append(@, name)]
    IN IF Len(c1.calls) = c.fail_at THEN Raise(c1, "remote error") ELSE c1

\* an SDK call on an entity ID: the platform answers 404 for an ID it does not hold
CallOn(c, name, exists) ==
    Then(Call(c, name), LAMBDA c1 : IF exists THEN c1 ELSE Raise(c1, "remote error: 404 not found"))

\* a mutating SDK call on an entity ID that configures a setting
Configure(c, name, exists) ==
    Then(CallOn(c, name, exists), LAMBDA c1 : [c1 EXCEPT !.remote.config = @ \cup {name}])

LocationExists(c) == c.remote.loc_count >= 1
Setting(c, name) == IF name \in c.remote.config THEN "configured" ELSE "default"

\* ------------------------------------------------------------------ ID resolution

\* faulty variant: a lookup hit is returned but not stored in the payload
ResolveLocationIdNoCache(c) ==
    IF Truthy(Get(c.payload, "location_id")) THEN Return(c, c.payload.location_id)
    ELSE IF ~Truthy(Get(c.payload, "location_name")) THEN Return(c, None)
    ELSE Then(Call(c, "locations.by_name"), LAMBDA c1 :
            IF LocationExists(c1) THEN Return(c1, RemoteLocationId) ELSE Return(c1, None))

\* V21Runner._resolve_location_id
ResolveLocationId(c) ==
    IF Truthy(Get(c.payload, "location_id")) THEN Return(c, c.payload.location_id)
    ELSE IF ~Truthy(Get(c.payload, "location_name")) THEN Return(c, None)
    ELSE Then(Call(c, "locations.by_name"), LAMBDA c1 :
            IF LocationExists(c1)
            THEN Return([c1 EXCEPT !.payload = Put(@, "location_id", RemoteLocationId)], RemoteLocationId)
            ELSE Return(c1, None))

\* faulty variant: a location that is not found is passed on as None
RequireLocationIdLenient(c) == ResolveLocationId(c)

\* V21Runner._require_location_id
RequireLocationId(c) ==
    Then(ResolveLocationId(c), LAMBDA c1 :
        IF ~Truthy(c1.val) THEN Raise(c1, "location not found") ELSE c1)

\* V21Runner._resolve_route_group_id
ResolveRouteGroupId(c) ==
    IF Truthy(Get(c.payload, "route_group_id")) THEN Return(c, c.payload.route_group_id)
    ELSE IF ~Truthy(Get(c.payload, "route_group_name")) THEN Return(c, None)
    ELSE Then(Call(c, "telephony.prem_pstn.route_group.list"), LAMBDA c1 :
            IF c1.remote.route_group
            THEN Return([c1 EXCEPT !.payload = Put(@, "route_group_id", RemoteRouteGroupId)], RemoteRouteGroupId)
            ELSE Return(c1, None))

\* V21Runner._require_route_group_id
RequireRouteGroupId(c) ==
    Then(ResolveRouteGroupId(c), LAMBDA c1 :
        IF ~Truthy(c1.val) THEN Raise(c1, "route_group_id is required") ELSE c1)

\* V21Runner._resolve_person_id
ResolvePersonId(c) ==
    IF Truthy(Get(c.payload, "user_id")) THEN Return(c, c.payload.user_id)
    ELSE IF ~Truthy(Get(c.payload, "user_email")) THEN Return(c, None)
    ELSE Then(Call(c, "people.list"), LAMBDA c1 :
            IF c1.remote.person
            THEN Return([c1 EXCEPT !.payload = Put(@, "user_id", RemotePersonId)], RemotePersonId)
            ELSE Return(c1, None))

\* V21Runner._resolve_workspace_id
ResolveWorkspaceId(c) ==
    IF Truthy(Get(c.payload, "workspace_id")) THEN Return(c, c.payload.workspace_id)
    ELSE IF ~Truthy(Get(c.payload, "workspace_name")) THEN Return(c, None)
    ELSE Then(Call(c, "workspaces.list"), LAMBDA c1 :
            IF c1.remote.workspace
            THEN Return([c1 EXCEPT !.payload = Put(@, "workspace_id", RemoteWorkspaceId)], RemoteWorkspaceId)
            ELSE Return(c1, None))

\* ------------------------------------------------------------------ state readers

PersonExists(c) == c.remote.person
WorkspaceExists(c) == c.remote.workspace

\* V21Runner._read_current_state: the snapshot is returned in val
ReadCurrentState(c, stage) ==
    CASE stage = "LOCATION_CREATE_AND_ACTIVATE" ->
           Then(ResolveLocationId(c), LAMBDA c1 :
             IF ~Truthy(c1.val) THEN Return(c1, [location |-> None, calling |-> None])
             ELSE Then(CallOn(c1, "locations.details", LocationExists(c1)), LAMBDA c2 :
                  Then(CallOn(c2, "telephony.location.details", LocationExists(c2)), LAMBDA c3 :
                    Return(c3, [ location |-> c1.val,
                                 calling |-> IF c3.remote.calling THEN "enabled" ELSE "disabled" ]))))
      [] stage = "LOCATION_ROUTE_GROUP_RESOLVE" ->
           Then(ResolveRouteGroupId(c), LAMBDA c1 : Return(c1, [route_group_id |-> c1.val]))
      [] stage = "LOCATION_PSTN_CONFIGURE" ->
           Then(RequireLocationId(c), LAMBDA c1 :
           Then(CallOn(c1, "telephony.pstn.list", LocationExists(c1)), LAMBDA c2 :
             Return(c2, [pstn_options |-> Setting(c2, "telephony.pstn.configure")])))
      [] stage = "LOCATION_NUMBERS_ADD_DISABLED" ->
           Then(RequireLocationId(c), LAMBDA c1 :
           Then(CallOn(c1, "telephony.location.phone_numbers", LocationExists(c1)), LAMBDA c2 :
             Return(c2, [numbers |-> Setting(c2, "telephony.location.numbers.add")])))
      [] stage = "LOCATION_MAIN_DDI_ASSIGN" ->
           Then(RequireLocationId(c), LAMBDA c1 :
           Then(CallOn(c1, "telephony.location.details", LocationExists(c1)), LAMBDA c2 :
             Return(c2, [calling_line_id |-> Setting(c2, "telephony.location.update")])))
      [] stage = "LOCATION_INTERNAL_CALLING_CONFIG" ->
           Then(RequireLocationId(c), LAMBDA c1 :
           Then(CallOn(c1, "telephony.location.internal_dialing.read", LocationExists(c1)), LAMBDA c2 :
             Return(c2, [internal_dialing |-> Setting(c2, "telephony.location.internal_dialing.update")])))
      [] stage = "LOCATION_OUTGOING_PERMISSION_DEFAULT" ->
           Then(RequireLocationId(c), LAMBDA c1 :
           Then(CallOn(c1, "telephony.permissions_out.read", LocationExists(c1)), LAMBDA c2 :
             Return(c2, [permissions_out |-> Setting(c2, "telephony.permissions_out.configure")])))
      [] stage \in {"USER_LEGACY_INTERCOM_SECONDARY", "USER_LEGACY_FORWARD_PREFIX_53",
                    "USER_OUTGOING_PERMISSION_OVERRIDE"} ->
           Then(ResolvePersonId(c), LAMBDA c1 :
             IF ~Truthy(c1.val) THEN Return(c1, [person |-> None])
             ELSE IF stage = "USER_LEGACY_INTERCOM_SECONDARY"
             THEN Then(CallOn(c1, "person_settings.numbers.read", PersonExists(c1)), LAMBDA c2 :
                    Return(c2, [numbers |-> Setting(c2, "person_settings.numbers.update")]))
             ELSE IF stage = "USER_LEGACY_FORWARD_PREFIX_53"
             THEN Then(CallOn(c1, "person_settings.forwarding.read", PersonExists(c1)), LAMBDA c2 :
                    Return(c2, [forwarding |-> Setting(c2, "person_settings.forwarding.configure")]))
             ELSE Then(CallOn(c1, "person_settings.permissions_out.read", PersonExists(c1)), LAMBDA c2 :
                    Return(c2, [permissions_out |-> Setting(c2, "person_settings.permissions_out.configure")])))
      [] stage \in {"WORKSPACE_LEGACY_INTERCOM_SECONDARY", "WORKSPACE_LEGACY_FORWARD_PREFIX_53",
                    "WORKSPACE_OUTGOING_PERMISSION_OVERRIDE"} ->
           Then(ResolveWorkspaceId(c), LAMBDA c1 :
             IF ~Truthy(c1.val) THEN Return(c1, [workspace |-> None])
             ELSE IF stage = "WORKSPACE_LEGACY_INTERCOM_SECONDARY"
             THEN Then(CallOn(c1, "workspace_settings.numbers.read", WorkspaceExists(c1)), LAMBDA c2 :
                    Return(c2, [numbers |-> Setting(c2, "workspace_settings.numbers.update")]))
             ELSE IF stage = "WORKSPACE_LEGACY_FORWARD_PREFIX_53"
             THEN Then(CallOn(c1, "workspace_settings.forwarding.read", WorkspaceExists(c1)), LAMBDA c2 :
                    Return(c2, [forwarding |-> Setting(c2, "workspace_settings.forwarding.configure")]))
             ELSE Then(CallOn(c1, "workspace_settings.permissions_out.read", WorkspaceExists(c1)), LAMBDA c2 :
                    Return(c2, [permissions_out |-> Setting(c2, "workspace_settings.permissions_out.configure")])))
      [] OTHER -> Return(c, [info |-> "no_state_reader"])

\* ------------------------------------------------------------------ apply

\* faulty variant: the location is created without looking for one of that name first
ApplyLocationCreateAlways(c) ==
    Then(Call(c, "locations.create"), LAMBDA c2 :
    Then(Call([c2 EXCEPT !.remote.loc_count = @ + 1], "telephony.location.enable_for_calling"),
         LAMBDA c3 :
           [c3 EXCEPT !.remote.calling = TRUE,
                      !.payload = Put(@, "location_id", RemoteLocationId)]))

\* V21Runner._apply_location_create_and_activate
ApplyLocationCreateAndActivate(c) ==
    Then(ResolveLocationId(c), LAMBDA c1 :
      IF Truthy(c1.val) THEN c1
      ELSE Then(Call(c1, "locations.create"), LAMBDA c2 :
           Then(Call([c2 EXCEPT !.remote.loc_count = @ + 1], "telephony.location.enable_for_calling"),
                LAMBDA c3 :
                  [c3 EXCEPT !.remote.calling = TRUE,
                             !.payload = Put(@, "location_id", RemoteLocationId)])))

RECURSIVE StripChars(_)
\* str.strip() of a string held as its characters
StripChars(chars) ==
    IF chars = <<>> THEN <<>>
    ELSE IF Head(chars) = " " THEN StripChars(Tail(chars))
    ELSE IF chars[Len(chars)] = " " THEN StripChars(SubSeq(chars, 1, Len(chars) - 1))
    ELSE chars

\* V21Runner._legacy_target: the destination as its characters, <<>> for None
LegacyTarget(payload) ==
    IF Truthy(Get(payload, "legacy_forward_target")) THEN <<payload.legacy_forward_target>>
    ELSE LET ext == StripChars(IF "extension" \in DOMAIN payload THEN payload.extension ELSE <<>>)
             prefix == Strip(Or(Get(payload, "legacy_forward_prefix"), "53"))
         IN IF ext = <<>> THEN <<>>
            ELSE IF Head(ext) = "8" THEN <<"+", prefix>> \o Tail(ext)
            ELSE <<"+", prefix>> \o ext

\* faulty variant: a profile the policy does not define is accepted as it is
OutgoingProfileSettingsLenient(c) ==
    Return(c, Or(Or(Get(c.payload, "outgoing_profile"), Get(c.payload, "default_outgoing_profile")),
                 policy.default_outgoing_profile))

\* V21Runner._outgoing_profile_settings: the profile's settings, or ValueError
OutgoingProfileSettings(c) ==
    LET profile == Or(Or(Get(c.payload, "outgoing_profile"), Get(c.payload, "default_outgoing_profile")),
                      policy.default_outgoing_profile)
    IN IF profile \in policy.outgoing_profiles THEN Return(c, profile)
       ELSE Raise(c, "Outgoing profile not found in static_policy.json")

\* V21Runner._apply_action
ApplyAction(c, stage) ==
    CASE stage = "LOCATION_CREATE_AND_ACTIVATE" -> ApplyLocationCreateAndActivate(c)
      [] stage = "LOCATION_ROUTE_GROUP_RESOLVE" -> ResolveRouteGroupId(c)
      [] stage = "LOCATION_PSTN_CONFIGURE" ->
           Then(RequireLocationId(c), LAMBDA c1 :
           Then(RequireRouteGroupId(c1), LAMBDA c2 :
             Configure(c2, "telephony.pstn.configure", LocationExists(c2))))
      [] stage = "LOCATION_NUMBERS_ADD_DISABLED" ->
           Then(RequireLocationId(c), LAMBDA c1 :
             IF SplitPipe(c1.payload.location_numbers) # <<>>
             THEN Configure(c1, "telephony.location.numbers.add", LocationExists(c1))
             ELSE c1)
      [] stage = "LOCATION_MAIN_DDI_ASSIGN" ->
           Then(RequireLocationId(c), LAMBDA c1 :
             IF ~Truthy(Get(c1.payload, "main_number")) THEN c1
             ELSE Then(CallOn(c1, "telephony.location.details", LocationExists(c1)), LAMBDA c2 :
                    Configure(c2, "telephony.location.update", LocationExists(c2))))
      [] stage = "LOCATION_INTERNAL_CALLING_CONFIG" ->
           Then(RequireLocationId(c), LAMBDA c1 :
             IF Get(c1.payload, "internal_dialing_enabled") = None THEN c1
             ELSE Then(IF Truthy(c1.payload.internal_dialing_enabled)
                          /\ ~Truthy(Get(c1.payload, "unknown_extension_route_id"))
                       THEN RequireRouteGroupId(c1) ELSE c1,
                       LAMBDA c2 :
                         Configure(c2, "telephony.location.internal_dialing.update", LocationExists(c2))))
      [] stage = "LOCATION_OUTGOING_PERMISSION_DEFAULT" ->
           Then(RequireLocationId(c), LAMBDA c1 :
           Then(OutgoingProfileSettings(c1), LAMBDA c2 :
             Configure(c2, "telephony.permissions_out.configure", LocationExists(c2))))
      [] stage = "USER_LEGACY_INTERCOM_SECONDARY" ->
           Then(ResolvePersonId(c), LAMBDA c1 :
             IF Truthy(c1.val) /\ Truthy(Get(c1.payload, "legacy_secondary_number"))
             THEN Configure(c1, "person_settings.numbers.update", PersonExists(c1))
             ELSE c1)
      [] stage = "USER_LEGACY_FORWARD_PREFIX_53" ->
           Then(ResolvePersonId(c), LAMBDA c1 :
             IF Truthy(c1.val) /\ LegacyTarget(c1.payload) # <<>>
             THEN Then(CallOn(c1, "person_settings.forwarding.read", PersonExists(c1)), LAMBDA c2 :
                    Configure(c2, "person_settings.forwarding.configure", PersonExists(c2)))
             ELSE c1)
      [] stage = "USER_OUTGOING_PERMISSION_OVERRIDE" ->
           Then(ResolvePersonId(c), LAMBDA c1 :
             IF Truthy(c1.val)
             THEN Then(OutgoingProfileSettings(c1), LAMBDA c2 :
                    Configure(c2, "person_settings.permissions_out.configure", PersonExists(c2)))
             ELSE c1)
      [] stage = "WORKSPACE_LEGACY_INTERCOM_SECONDARY" ->
           Then(ResolveWorkspaceId(c), LAMBDA c1 :
             IF Truthy(c1.val) /\ Truthy(Get(c1.payload, "legacy_secondary_number"))
             THEN Configure(c1, "workspace_settings.numbers.update", WorkspaceExists(c1))
             ELSE c1)
      [] stage = "WORKSPACE_LEGACY_FORWARD_PREFIX_53" ->
           Then(ResolveWorkspaceId(c), LAMBDA c1 :
             IF Truthy(c1.val) /\ LegacyTarget(c1.payload) # <<>>
             THEN Then(CallOn(c1, "workspace_settings.forwarding.read", WorkspaceExists(c1)), LAMBDA c2 :
                    Configure(c2, "workspace_settings.forwarding.configure", WorkspaceExists(c2)))
             ELSE c1)
      [] stage = "WORKSPACE_OUTGOING_PERMISSION_OVERRIDE" ->
           Then(ResolveWorkspaceId(c), LAMBDA c1 :
             IF Truthy(c1.val)
             THEN Then(OutgoingProfileSettings(c1), LAMBDA c2 :
                    Configure(c2, "workspace_settings.permissions_out.configure", WorkspaceExists(c2)))
             ELSE c1)
      [] OTHER -> c

\* ------------------------------------------------------------------ tools around the engine

NoInvoke == [pc |-> "idle"]
NoExport == [pc |-> "idle"]
NoCli == [pc |-> "idle"]
NoHttp == [pc |-> "idle"]
NoV2 == [pc |-> "idle"]
NoConfig == [pc |-> "idle"]
NoDesvio == [pc |-> "idle"]
NoJobs == [pc |-> "idle"]

\* no tool has been called
ToolsIdle ==
    /\ invoke = NoInvoke
    /\ export = NoExport
    /\ cli = NoCli
    /\ http = NoHttp
    /\ v2 = NoV2
    /\ config = NoConfig
    /\ desvio = NoDesvio
    /\ jobs = NoJobs

\* ------------------------------------------------------------------ input files

\* the files _load_all reads from <out>/v21
InputFiles == {"static_policy.json", "input_locations.csv", "input_users.csv", "input_workspaces.csv"}

\* bootstrap_v21_inputs(v21_dir): the paths of the templates it had to create, which
\* are the input files that were absent
BootstrapV21Inputs(files) == InputFiles \ files

\* the name of the exception _ensure_inputs raises; its message lists the created paths
MissingV21InputsError == "MissingV21InputsError"

\* faulty variant: the templates are created and the call goes on
EnsureInputsSilent(files) ==
    [ files |-> files \cup BootstrapV21Inputs(files), created |-> {}, exc |-> None ]

\* _ensure_inputs(): the templates are created, and the call raises when any was
EnsureInputs(files) ==
    [ files |-> files \cup BootstrapV21Inputs(files),
      created |-> BootstrapV21Inputs(files),
      exc |-> IF BootstrapV21Inputs(files) # {} THEN MissingV21InputsError ELSE None ]

\* ------------------------------------------------------------------ executor

NoFile == [exists |-> FALSE]
NoCall == [op |-> "none"]
NoRun == [pc |-> "idle"]

\* action_state['items'] as read from action_state.json ({} when the file is absent)
ItemsOf(file) == IF file.exists THEN file.items ELSE <<>>

\* the 'status' of an action_state entry
StatusOf(error, apply) ==
    IF Truthy(error) THEN "failed" ELSE IF apply THEN "applied" ELSE "previewed"

\* the tail of the try block: after _apply_action returned, the state is read again
ReadAfterApply(ca, stage) == IF Failed(ca) THEN ca ELSE ReadCurrentState(ca, stage)

\* faulty variant: the stage is applied whether or not apply was asked for
ApplyPhaseAlways(cb, stage, apply) == ReadAfterApply(ApplyAction(cb, stage), stage)

\* the `if apply: try: ...` block of run_single_action, without its handler: the
\* context after _apply_action and the second _read_current_state
ApplyPhase(cb, stage, apply) ==
    IF apply THEN ReadAfterApply(ApplyAction(cb, stage), stage) ELSE cb

\* run_single_action left by an exception: nothing is written. exc and phase record
\* for the observer what was raised and where: checking the range, reading `before`,
\* or inside the try block
Propagated(state_file, stage, c, message, phase) ==
    [ raised |-> message, exc |-> message, phase |-> phase,
      before |-> None, after |-> None, changed |-> FALSE, error |-> None,
      calls |-> c.calls, raised_at |-> c.raised_at, payload |-> c.payload, stage |-> stage,
      remote |-> c.remote, action_state |-> state_file ]

\* faulty variant: an exception of the try block leaves run_single_action, nothing is written
RecordedUncaught(state_file, action, action_id, apply, before, ca) ==
    IF Failed(ca) THEN Propagated(state_file, action.stage, ca, ca.exc, "try")
    ELSE [ raised |-> None, exc |-> None, phase |-> "none", before |-> before, after |-> ca.val,
           changed |-> (before # ca.val), error |-> None,
           calls |-> ca.calls, raised_at |-> ca.raised_at, payload |-> ca.payload,
           stage |-> action.stage, remote |-> ca.remote,
           action_state |-> [ exists |-> TRUE,
                              items |-> Put(ItemsOf(state_file), action_id,
                                            [ stage |-> action.stage, entity_key |-> action.entity_key,
                                              status |-> StatusOf(None, apply), error |-> None ]) ] ]

\* run_single_action from `except Exception` on: the error is str(exc), after stays
\* before when the try block raised, the entry of action_state.json is written and the
\* dict returned. ca is the context the try block ended in.
Recorded(state_file, action, action_id, apply, before, ca) ==
    [ raised |-> None,
      exc |-> ca.exc,
      phase |-> IF Failed(ca) THEN "try" ELSE "none",
      before |-> before,
      after |-> IF Failed(ca) THEN before ELSE ca.val,
      changed |-> (before # (IF Failed(ca) THEN before ELSE ca.val)),
      error |-> ca.exc,
      calls |-> ca.calls, raised_at |-> ca.raised_at, payload |-> ca.payload,
      stage |-> action.stage, remote |-> ca.remote,
      action_state |-> [ exists |-> TRUE,
                         items |-> Put(ItemsOf(state_file), action_id,
                                       [ stage |-> action.stage, entity_key |-> action.entity_key,
                                         status |-> StatusOf(ca.exc, apply), error |-> ca.exc ]) ] ]

\* run_single_action once `before` was read: cb is the context _read_current_state
\* ended in (an exception of this first read is outside the try block)
AfterBefore(state_file, action, action_id, apply, cb) ==
    IF Failed(cb) THEN Propagated(state_file, action.stage, cb, cb.exc, "before")
    ELSE Recorded(state_file, action, action_id, apply, cb.val, ApplyPhase(cb, action.stage, apply))

\* run_single_action on the plan row `action`
OnAction(rem, state_file, action, action_id, apply, fail_at) ==
    AfterBefore(state_file, action, action_id, apply,
                ReadCurrentState(Ctx(rem, action.payload, fail_at), action.stage))

\* V21Runner.run_single_action(action_id, apply=apply), with fail_at the SDK call the
\* environment makes raise. The result names the exception that left the call
\* (raised), or the returned dict's fields, and the remote state and action_state.json
\* the call leaves behind.
RunSingleAction(rem, state_file, action_id, apply, fail_at) ==
    IF EnsureInputs(input_files).exc # None
    THEN Propagated(state_file, None, Ctx(rem, None, fail_at), EnsureInputs(input_files).exc, "inputs")
    ELSE IF action_id < 0 \/ action_id >= Len(PlanRows(locations, users, workspaces, policy))
    THEN Propagated(state_file, None, Ctx(rem, None, fail_at), "action_id out of range", "range")
    ELSE OnAction(rem, state_file, PlanRows(locations, users, workspaces, policy)[action_id + 1],
                  action_id, apply, fail_at)

\* what the caller of run_single_action observes
Outcome(r, action_id, apply) ==
    [ op |-> "run_single_action", action_id |-> action_id, apply |-> apply, raised |-> r.raised,
      exc |-> r.exc, phase |-> r.phase, before |-> r.before, after |-> r.after, changed |-> r.changed, error |-> r.error,
      calls |-> r.calls, raised_at |-> r.raised_at, payload |-> r.payload, stage |-> r.stage,
      created |-> EnsureInputs(input_files).created ]

\* the dict run_single_action returns, as run() keeps it in results
ResultOf(r, action_id) ==
    [ action_id |-> action_id, before |-> r.before, after |-> r.after, changed |-> r.changed,
      error |-> r.error ]

\* ------------------------------------------------------------------ execution specification

MaxOps == 2
MaxRuns == 1
MaxFaults == 1
MaxSdkCalls == 6

FailChoices == 0..MaxSdkCalls

\* the environment's choice took effect: the fail_at-th SDK call was made and raised
Faulted(r, fail_at) == fail_at > 0 /\ fail_at <= Len(r.calls)

\* the environment makes at most MaxFaults SDK calls raise, and a choice of a call that
\* is never made is the choice of none
FaultBudget(r, fail_at) ==
    /\ fail_at > 0 => Faulted(r, fail_at) /\ faults < MaxFaults
    /\ faults' = IF fail_at > 0 THEN faults + 1 ELSE faults

ExecPolicy ==
    [ default_outgoing_profile |-> "profile_2", outgoing_profiles |-> {"profile_2", "profile_3"} ]

Remote(loc_count, calling, route_group, person, workspace) ==
    [ loc_count |-> loc_count, calling |-> calling, route_group |-> route_group,
      person |-> person, workspace |-> workspace, config |-> {} ]

Scenario(locs, usrs, wss, rem) ==
    [ locations |-> locs, users |-> usrs, workspaces |-> wss, remote |-> rem ]

\* the input files and the remote state a behaviour starts from: one entity to provision,
\* referenced by name or by a direct ID, present or absent on the platform
LocationScenarios ==
    LET plain == LocationRecord(None, "Madrid", <<>>, None, None)
        full == LocationRecord(None, "Madrid", <<"+34910000001", " ">>, "profile_9", "True")
        direct == LocationRecord(RemoteLocationId, "Madrid", <<"+34910000001">>, None, "False")
    IN { Scenario(<<plain>>, <<>>, <<>>, Remote(0, FALSE, TRUE, FALSE, FALSE)),
         Scenario(<<plain>>, <<>>, <<>>, Remote(1, FALSE, TRUE, FALSE, FALSE)),
         Scenario(<<full>>, <<>>, <<>>, Remote(0, FALSE, TRUE, FALSE, FALSE)),
         Scenario(<<full>>, <<>>, <<>>, Remote(1, TRUE, FALSE, FALSE, FALSE)),
         Scenario(<<direct>>, <<>>, <<>>, Remote(0, FALSE, TRUE, FALSE, FALSE)),
         Scenario(<<direct>>, <<>>, <<>>, Remote(1, TRUE, TRUE, FALSE, FALSE)) }

UserScenarios ==
    LET byEmail == UserRecord(None, "ana@example.com", "profile_3")
        direct == UserRecord(RemotePersonId, "ana@example.com", None)
    IN { Scenario(<<>>, <<byEmail>>, <<>>, Remote(0, FALSE, FALSE, TRUE, FALSE)),
         Scenario(<<>>, <<byEmail>>, <<>>, Remote(0, FALSE, FALSE, FALSE, FALSE)),
         Scenario(<<>>, <<direct>>, <<>>, Remote(0, FALSE, FALSE, FALSE, FALSE)) }

WorkspaceScenarios ==
    LET byName == WorkspaceRecord(None, "Sala 1", "profile_9")
        direct == WorkspaceRecord(RemoteWorkspaceId, "Sala 1", None)
    IN { Scenario(<<>>, <<>>, <<byName>>, Remote(0, FALSE, FALSE, FALSE, TRUE)),
         Scenario(<<>>, <<>>, <<byName>>, Remote(0, FALSE, FALSE, FALSE, FALSE)),
         Scenario(<<>>, <<>>, <<direct>>, Remote(0, FALSE, FALSE, FALSE, TRUE)) }

Scenarios == LocationScenarios \cup UserScenarios \cup WorkspaceScenarios

Init ==
    /\ \E sc \in Scenarios :
         /\ locations = sc.locations
         /\ users = sc.users
         /\ workspaces = sc.workspaces
         /\ remote = sc.remote
    /\ policy = ExecPolicy
    /\ plan_rows = <<>>
    /\ planned = FALSE
    /\ action_state = NoFile
    /\ run_state = NoFile
    /\ plan_csv = NoFile
    /\ ret = NoCall
    /\ run = NoRun
    /\ ops = 0
    /\ faults = 0
    /\ action_payload = <<>>
    /\ ToolsIdle
    /\ input_files = InputFiles

\* the state a run_single_action call with result r leaves
Commit(r, action_id, apply, fail_at) ==
    /\ FaultBudget(r, fail_at)
    /\ remote' = r.remote
    /\ action_state' = r.action_state
    /\ ret' = Outcome(r, action_id, apply)

\* a caller (CLI or UI) invokes run_single_action(action_id, apply=apply)
SingleAction(action_id, apply, fail_at) ==
    /\ ops < MaxOps
    /\ fail_at > 0 => faults < MaxFaults
    /\ Commit(RunSingleAction(remote, action_state, action_id, apply, fail_at), action_id, apply, fail_at)
    /\ input_files' = EnsureInputs(input_files).files
    /\ ops' = ops + 1
    /\ UNCHANGED <<toolVars, inputVars, planVars, resolveVars, run_state, plan_csv, run>>

\* run(dry_run=dry_run) up to its loop: the plan is loaded, results is empty
RunBegin(dry_run) ==
    /\ run.pc # "loop"
    /\ ops < MaxRuns
    /\ run' = IF EnsureInputs(input_files).exc # None
              THEN [ pc |-> "raised", dry_run |-> dry_run, idx |-> 0, results |-> <<>>,
                     exc |-> EnsureInputs(input_files).exc, rows |-> <<>>,
                     created |-> EnsureInputs(input_files).created ]
              ELSE [ pc |-> "loop", dry_run |-> dry_run, idx |-> 0, results |-> <<>>, exc |-> None,
                     rows |-> PlanRows(locations, users, workspaces, policy), created |-> {} ]
    /\ input_files' = EnsureInputs(input_files).files
    /\ ops' = ops + 1
    /\ UNCHANGED <<toolVars, inputVars, planVars, resolveVars, remote, action_state, run_state, plan_csv, ret, faults>>

\* faulty variant: the returned dict is put in front of results
IterateReversed(r, action_id) ==
    run' = IF r.raised # None
           THEN [run EXCEPT !.pc = "raised", !.exc = r.raised]
           ELSE [run EXCEPT !.idx = @ + 1, !.results = <<ResultOf(r, action_id)>> \o @]

\* the loop of run() after run_single_action ended with result r: the returned dict is
\* appended to results; an exception leaving run_single_action leaves run()
Iterate(r, action_id) ==
    run' = IF r.raised # None
           THEN [run EXCEPT !.pc = "raised", !.exc = r.raised]
           ELSE [run EXCEPT !.idx = @ + 1, !.results = Append(@, ResultOf(r, action_id))]

\* faulty variant: the loop runs the actions in a dry run too
RunStepInDryRun(fail_at) ==
    /\ run.pc = "loop"
    /\ run.idx < Len(run.rows)
    /\ Commit(RunSingleAction(remote, action_state, run.rows[run.idx + 1].action_id, TRUE, fail_at),
              run.rows[run.idx + 1].action_id, TRUE, fail_at)
    /\ Iterate(RunSingleAction(remote, action_state, run.rows[run.idx + 1].action_id, TRUE, fail_at),
               run.rows[run.idx + 1].action_id)
    /\ UNCHANGED <<toolVars, inputVars, planVars, resolveVars, fileVars, run_state, plan_csv, ops>>

\* one iteration of `for row in plan_rows`: results.append(run_single_action(id, apply=True))
RunStep(fail_at) ==
    /\ run.pc = "loop"
    /\ ~run.dry_run
    /\ run.idx < Len(run.rows)
    /\ Commit(RunSingleAction(remote, action_state, run.rows[run.idx + 1].action_id, TRUE, fail_at),
              run.rows[run.idx + 1].action_id, TRUE, fail_at)
    /\ Iterate(RunSingleAction(remote, action_state, run.rows[run.idx + 1].action_id, TRUE, fail_at),
               run.rows[run.idx + 1].action_id)
    /\ UNCHANGED <<toolVars, inputVars, planVars, resolveVars, fileVars, run_state, plan_csv, ops>>

FailedCount(results) == Cardinality({ i \in 1..Len(results) : Truthy(results[i].error) })

\* run() after its loop: plan.csv and run_state.json are written, the summary returned
RunEnd ==
    /\ run.pc = "loop"
    /\ run.dry_run \/ run.idx = Len(run.rows)
    /\ plan_csv' = [ exists |-> TRUE, rows |-> run.rows ]
    /\ run_state' = [ exists |-> TRUE,
                      mode |-> IF run.dry_run THEN "dry_run" ELSE "apply",
                      completed_count |-> Len(run.rows),
                      failed_count |-> FailedCount(run.results),
                      planned_count |-> Len(run.rows),
                      planned_actions |-> run.rows,
                      results |-> run.results ]
    /\ run' = [run EXCEPT !.pc = "returned"]
    /\ UNCHANGED <<toolVars, inputVars, planVars, resolveVars, fileVars, remote, action_state, ret, ops, faults>>

PlanLength == Len(PlanRows(locations, users, workspaces, policy))

\* callers invoke run_single_action one call after the other
Next ==
    \E action_id \in 0..PlanLength, apply \in BOOLEAN, fail_at \in FailChoices :
        SingleAction(action_id, apply, fail_at)

Spec == Init /\ [][Next]_vars

\* one caller invokes run()
RunNext ==
    \/ \E dry_run \in BOOLEAN : RunBegin(dry_run)
    \/ \E fail_at \in FailChoices : RunStep(fail_at)
    \/ RunEnd

RunSpec == Init /\ [][RunNext]_vars

\* ------------------------------------------------------------------ resolution specification

\* payloads as the resolvers may receive them: no reference at all, a name or an email
\* only, or a direct ID
ResolvePayloads ==
    { [ location_id |-> l[1], location_name |-> l[2], route_group_id |-> g[1], route_group_name |-> g[2] ] :
        l \in { <<None, "">>, <<None, "Madrid">>, <<RemoteLocationId, "Madrid">> },
        g \in { <<None, None>>, <<None, "RG-PSTN">>, <<RemoteRouteGroupId, "RG-PSTN">> } }
    \cup { [ user_id |-> u[1], user_email |-> u[2] ] :
             u \in { <<None, "">>, <<None, "ana@example.com">>, <<RemotePersonId, "ana@example.com">> } }
    \cup { [ workspace_id |-> w[1], workspace_name |-> w[2] ] :
             w \in { <<None, None>>, <<None, "Sala 1">>, <<RemoteWorkspaceId, "Sala 1">> } }

ResolveInit ==
    /\ action_payload \in ResolvePayloads
    /\ remote \in [ loc_count : {0, 1}, calling : {FALSE}, route_group : BOOLEAN, person : BOOLEAN,
                     workspace : BOOLEAN, config : {{}} ]
    /\ locations = <<>>
    /\ users = <<>>
    /\ workspaces = <<>>
    /\ policy = ExecPolicy
    /\ plan_rows = <<>>
    /\ planned = FALSE
    /\ action_state = NoFile
    /\ run_state = NoFile
    /\ plan_csv = NoFile
    /\ ret = NoCall
    /\ run = NoRun
    /\ ops = 0
    /\ faults = 0
    /\ input_files = InputFiles
    /\ ToolsIdle

\* the state a resolver call that ended in context c leaves: the payload is the dict
\* the resolver was given, mutated in place
Resolved(kind, c, fail_at) ==
    /\ ops < MaxOps
    /\ FaultBudget(c, fail_at)
    /\ action_payload' = c.payload
    /\ ret' = [ op |-> "resolve", kind |-> kind, val |-> c.val, raised |-> c.exc, calls |-> c.calls,
                payload_before |-> action_payload ]
    /\ ops' = ops + 1
    /\ UNCHANGED <<toolVars, inputVars, planVars, fileVars, remote, action_state, run_state, plan_csv, run>>

ResolveLocation(fail_at) ==
    Resolved("location", ResolveLocationId(Ctx(remote, action_payload, fail_at)), fail_at)

ResolveRouteGroup(fail_at) ==
    Resolved("route_group", ResolveRouteGroupId(Ctx(remote, action_payload, fail_at)), fail_at)

ResolvePerson(fail_at) ==
    Resolved("person", ResolvePersonId(Ctx(remote, action_payload, fail_at)), fail_at)

ResolveWorkspace(fail_at) ==
    Resolved("workspace", ResolveWorkspaceId(Ctx(remote, action_payload, fail_at)), fail_at)

ResolveNext ==
    \/ \E fail_at \in FailChoices : ResolveLocation(fail_at)
    \/ \E fail_at \in FailChoices : ResolveRouteGroup(fail_at)
    \/ \E fail_at \in FailChoices : ResolvePerson(fail_at)
    \/ \E fail_at \in FailChoices : ResolveWorkspace(fail_at)

ResolveSpec == ResolveInit /\ [][ResolveNext]_vars

\* ------------------------------------------------------------------ planning specification

PlanInit ==
    /\ locations \in { r \in SeqsUpTo(PlanLocationRecords, MaxLocations) : DistinctKeys(r, LocationKey) }
    /\ users \in { r \in SeqsUpTo(PlanUserRecords, MaxUsers) : DistinctKeys(r, UserKey) }
    /\ workspaces \in { r \in SeqsUpTo(PlanWorkspaceRecords, MaxWorkspaces) : DistinctKeys(r, WorkspaceKey) }
    /\ policy \in Policies
    /\ plan_rows = <<>>
    /\ planned = FALSE
    /\ remote = NoRemote
    /\ action_state = NoFile
    /\ run_state = NoFile
    /\ plan_csv = NoFile
    /\ ret = NoCall
    /\ run = NoRun
    /\ ops = 0
    /\ faults = 0
    /\ action_payload = <<>>
    /\ ToolsIdle
    /\ input_files = InputFiles

\* V21Runner.load_plan_rows()
LoadPlanRows ==
    /\ ~planned
    /\ input_files' = EnsureInputs(input_files).files
    /\ ret' = [ op |-> "load_plan_rows", raised |-> EnsureInputs(input_files).exc,
                created |-> EnsureInputs(input_files).created, calls |-> <<>> ]
    /\ IF EnsureInputs(input_files).exc # None
       THEN UNCHANGED <<planVars, locations>>
       ELSE /\ plan_rows' = PlanRows(locations, users, workspaces, policy)
            /\ planned' = TRUE
            /\ locations' = [ i \in 1..Len(locations) |-> LocationAfterPlan(locations[i], policy) ]
    /\ UNCHANGED <<toolVars, users, workspaces, policy, resolveVars,
                   remote, action_state, run_state, plan_csv, run, ops, faults>>

PlanNext == LoadPlanRows

PlanSpec == PlanInit /\ [][PlanNext]_vars

\* ------------------------------------------------------------------ entry point specification

\* rows as loaded from a file: a file that is absent, or a template just created, has none
RowsIn(file, files, rows) == IF file \in files THEN rows ELSE <<>>

\* any of the input files may be absent when an entry point is called
EntryInit ==
    /\ input_files \in SUBSET InputFiles
    /\ \E sc \in Scenarios :
         /\ locations = RowsIn("input_locations.csv", input_files, sc.locations)
         /\ users = RowsIn("input_users.csv", input_files, sc.users)
         /\ workspaces = RowsIn("input_workspaces.csv", input_files, sc.workspaces)
         /\ remote = sc.remote
    /\ policy = ExecPolicy
    /\ plan_rows = <<>>
    /\ planned = FALSE
    /\ action_state = NoFile
    /\ run_state = NoFile
    /\ plan_csv = NoFile
    /\ ret = NoCall
    /\ run = NoRun
    /\ ops = 0
    /\ faults = 0
    /\ action_payload = <<>>
    /\ ToolsIdle

\* the entry points of V21Runner, called one after the other; no SDK call fails
EntryNext ==
    \/ LoadPlanRows
    \/ \E action_id \in 0..PlanLength, apply \in BOOLEAN : SingleAction(action_id, apply, 0)
    \/ \E dry_run \in BOOLEAN : RunBegin(dry_run)
    \/ RunStep(0)
    \/ RunEnd

EntrySpec == EntryInit /\ [][EntryNext]_vars

\* ------------------------------------------------------------------ the engine at rest

engineVars == <<inputVars, planVars, execVars, resolveVars, fileVars>>

\* the initial condition of the engine for the tools that run without it
EngineIdle ==
    /\ locations = <<>>
    /\ users = <<>>
    /\ workspaces = <<>>
    /\ policy = ExecPolicy
    /\ plan_rows = <<>>
    /\ planned = FALSE
    /\ remote = NoRemote
    /\ action_state = NoFile
    /\ run_state = NoFile
    /\ plan_csv = NoFile
    /\ ret = NoCall
    /\ run = NoRun
    /\ ops = 0
    /\ faults = 0
    /\ action_payload = <<>>
    /\ input_files = InputFiles

\* ------------------------------------------------------------------ retry helper (launcher_csv_dependencias)

MaxAttempts == 3

\* what one invocation of the handler does: it returns, or raises an error whose
\* response carries a status code and headers
HandlerOk == [ kind |-> "ok" ]
HandlerError(status_code, headers) == [ kind |-> "error", status_code |-> status_code, headers |-> headers ]
NoHeaders == <<>>
RetryAfter(digits) == [ h \in {"Retry-After"} |-> digits ]

HandlerOutcomes ==
    { HandlerOk,
      HandlerError(429, RetryAfter(<<"2">>)),
      HandlerError(429, RetryAfter(<<"1", "0">>)),
      HandlerError(429, NoHeaders),
      HandlerError(503, RetryAfter(<<"2">>)),
      HandlerError(500, NoHeaders) }

DigitValue(ch) ==
    CASE ch = "0" -> 0 [] ch = "1" -> 1 [] ch = "2" -> 2 [] ch = "3" -> 3 [] ch = "4" -> 4
      [] ch = "5" -> 5 [] ch = "6" -> 6 [] ch = "7" -> 7 [] ch = "8" -> 8 [] ch = "9" -> 9

RECURSIVE ParseSeconds(_)
ParseSeconds(digits) ==
    IF digits = <<>> THEN 0
    ELSE 10 * ParseSeconds(SubSeq(digits, 1, Len(digits) - 1)) + DigitValue(digits[Len(digits)])

\* faulty variant: a fixed pause, whatever the server asked for
RetryAfterWaitSecondsFixed(headers) == 1

\* _retry_after_wait_seconds applied to the Retry-After header of the response: the
\* number of seconds the header's decimal string stands for
RetryAfterWaitSeconds(headers) == ParseSeconds(headers["Retry-After"])

\* faulty variant: every rate-limit error with a Retry-After header or not, and every
\* error that names a pause, is retried
ShouldRetryLax(outcome) ==
    outcome.kind = "error" /\ (outcome.status_code = 429 \/ "Retry-After" \in DOMAIN outcome.headers)

\* the helper retries a rate-limit error (429) that carries a Retry-After header
ShouldRetry(outcome) ==
    /\ outcome.kind = "error"
    /\ outcome.status_code = 429
    /\ "Retry-After" \in DOMAIN outcome.headers

\* handler(token=token, **params) is invoked for the n-th time
Invocation(token, params) == [ token |-> token, params |-> params ]

\* what the handler returns
HandlerResult(n, token, params) == [ status |-> "ok", attempt |-> n, token |-> token, params |-> params ]

RetryInit ==
    /\ invoke \in [ pc : {"called"}, token : {"tkn"}, params : {"a=1", "a=2"},
                    script : [1..MaxAttempts -> HandlerOutcomes],
                    invocations : {<<>>}, sleeps : {<<>>}, result : {None}, raised : {None} ]
    /\ export = NoExport
    /\ cli = NoCli
    /\ http = NoHttp
    /\ v2 = NoV2
    /\ config = NoConfig
    /\ desvio = NoDesvio
    /\ jobs = NoJobs
    /\ EngineIdle

\* the first invocation of the handler
InvokeHandler ==
    /\ invoke.pc = "called"
    /\ invoke' =
         [ invoke EXCEPT
             !.invocations = Append(@, Invocation(invoke.token, invoke.params)),
             !.pc = IF invoke.script[1].kind = "ok" THEN "returned"
                    ELSE IF ShouldRetry(invoke.script[1]) THEN "sleep" ELSE "raised",
             !.result = IF invoke.script[1].kind = "ok"
                        THEN HandlerResult(1, invoke.token, invoke.params) ELSE None,
             !.raised = IF invoke.script[1].kind = "error" /\ ~ShouldRetry(invoke.script[1])
                        THEN invoke.script[1] ELSE None ]
    /\ UNCHANGED <<engineVars, export, cli, http, v2, config, desvio, jobs>>

\* time.sleep(wait) before the retry
SleepRetryAfter ==
    /\ invoke.pc = "sleep"
    /\ invoke' = [ invoke EXCEPT
                     !.sleeps = Append(@, RetryAfterWaitSeconds(invoke.script[Len(invoke.invocations)].headers)),
                     !.pc = "retry" ]
    /\ UNCHANGED <<engineVars, export, cli, http, v2, config, desvio, jobs>>

\* the second invocation: its result is returned, its error propagates
RetryHandler ==
    /\ invoke.pc = "retry"
    /\ invoke' =
         [ invoke EXCEPT
             !.invocations = Append(@, Invocation(invoke.token, invoke.params)),
             !.pc = IF invoke.script[2].kind = "ok" THEN "returned" ELSE "raised",
             !.result = IF invoke.script[2].kind = "ok"
                        THEN HandlerResult(2, invoke.token, invoke.params) ELSE None,
             !.raised = IF invoke.script[2].kind = "error" THEN invoke.script[2] ELSE None ]
    /\ UNCHANGED <<engineVars, export, cli, http, v2, config, desvio, jobs>>

RetryNext == InvokeHandler \/ SleepRetryAfter \/ RetryHandler

RetrySpec == RetryInit /\ [][RetryNext]_vars

\* ------------------------------------------------------------------ export runner (Space_OdT/export_runner.py)

MaxRows == 1

\* MODULE_SPECS and V1_ARTIFACT_SPECS: the catalogue of what is exported, in order
ModuleSpecs ==
    << [ name |-> "people", list_path |-> "people.list" ],
       [ name |-> "groups", list_path |-> "groups.list" ] >>

ArtifactSpecs ==
    << [ module |-> "calling_locations", method_path |-> "telephony.location.list" ] >>

ModuleNames ==
    { ModuleSpecs[i].name : i \in 1..Len(ModuleSpecs) } \cup { ArtifactSpecs[i].module : i \in 1..Len(ArtifactSpecs) }

\* what run_spec / run_artifact does for one module: it returns rows, or raises
Fetched(n) == [ kind |-> "ok", rows |-> [ i \in 1..n |-> "row" ] ]
FetchRaised(http_status, message) == [ kind |-> "error", http_status |-> http_status, message |-> message ]

FetchOutcomes ==
    { Fetched(n) : n \in 0..MaxRows }
    \cup { FetchRaised("403", "forbidden by scope"), FetchRaised("404", "no such resource"),
           FetchRaised(None, "connection reset") }

\* classify_exception(exc): (kind, http_status, message)
ClassifyException(exc) ==
    [ err |-> CASE exc.http_status = "403" -> "forbidden" [] exc.http_status = "404" -> "not_found"
                [] OTHER -> "error",
      status |-> exc.http_status,
      msg |-> exc.message ]

StatusRecord(module, method, result, http_status, error, count) ==
    [ module |-> module, method |-> method, result |-> result, http_status |-> http_status,
      error |-> error, count |-> count ]

JsonOf(module_name) == <<module_name, "json">>
CsvOf(module_name) == <<module_name, "csv">>

\* _write_module_exports(exports_dir, module_name, rows)
WriteModuleExports(files, module_name, rows) ==
    Put(Put(files, JsonOf(module_name), rows), CsvOf(module_name), rows)

\* _empty_module(exports_dir, module_name)
EmptyModule(files, module_name) == WriteModuleExports(files, module_name, <<>>)

\* faulty variant: no handler around the fetch, its exception leaves run_exports
ExportOneUnguarded(e, module_name, method, outcome) ==
    IF outcome.kind = "ok"
    THEN [ e EXCEPT
             !.files = WriteModuleExports(@, module_name, outcome.rows),
             !.cache_entities = Put(@, module_name, outcome.rows),
             !.module_counts = Put(@, module_name, Len(outcome.rows)),
             !.records = Append(@, StatusRecord(module_name, method, "ok", None, "", Len(outcome.rows))) ]
    ELSE [ e EXCEPT !.pc = "raised" ]

\* the body of one loop iteration for an enabled module: try the fetch, write and
\* record it; on an exception write an empty export and record the classified error
ExportOne(e, module_name, method, outcome) ==
    IF outcome.kind = "ok"
    THEN [ e EXCEPT
             !.files = WriteModuleExports(@, module_name, outcome.rows),
             !.cache_entities = Put(@, module_name, outcome.rows),
             !.module_counts = Put(@, module_name, Len(outcome.rows)),
             !.records = Append(@, StatusRecord(module_name, method, "ok", None, "", Len(outcome.rows))) ]
    ELSE [ e EXCEPT
             !.files = EmptyModule(@, module_name),
             !.cache_entities = Put(@, module_name, <<>>),
             !.module_counts = Put(@, module_name, 0),
             !.records = Append(@, StatusRecord(module_name, method, ClassifyException(outcome).err,
                                                ClassifyException(outcome).status,
                                                ClassifyException(outcome).msg, 0)) ]

ExportInit ==
    /\ export \in [ pc : {"called"}, enabled_modules : SUBSET ModuleNames,
                    fetch : [ModuleNames -> FetchOutcomes],
                    write_cache : BOOLEAN, write_report : BOOLEAN,
                    idx : {1}, aidx : {1}, files : {<<>>}, cache_entities : {<<>>},
                    module_counts : {<<>>}, records : {<<>>}, ret : {None} ]
    /\ invoke = NoInvoke
    /\ cli = NoCli
    /\ http = NoHttp
    /\ v2 = NoV2
    /\ config = NoConfig
    /\ desvio = NoDesvio
    /\ jobs = NoJobs
    /\ EngineIdle

\* one iteration of `for spec in MODULE_SPECS`
ExportModule ==
    /\ export.pc = "called"
    /\ export.idx <= Len(ModuleSpecs)
    /\ export' =
         IF ModuleSpecs[export.idx].name \notin export.enabled_modules
         THEN [ export EXCEPT !.idx = @ + 1 ]
         ELSE [ ExportOne(export, ModuleSpecs[export.idx].name, ModuleSpecs[export.idx].list_path,
                          export.fetch[ModuleSpecs[export.idx].name])
                  EXCEPT !.idx = @ + 1 ]
    /\ UNCHANGED <<engineVars, invoke, cli, http, v2, config, desvio, jobs>>

\* one iteration of `for spec in V1_ARTIFACT_SPECS`
ExportArtifact ==
    /\ export.pc = "called"
    /\ export.idx > Len(ModuleSpecs)
    /\ export.aidx <= Len(ArtifactSpecs)
    /\ export' =
         IF ArtifactSpecs[export.aidx].module \notin export.enabled_modules
         THEN [ export EXCEPT !.aidx = @ + 1 ]
         ELSE [ ExportOne(export, ArtifactSpecs[export.aidx].module, ArtifactSpecs[export.aidx].method_path,
                          export.fetch[ArtifactSpecs[export.aidx].module])
                  EXCEPT !.aidx = @ + 1 ]
    /\ UNCHANGED <<engineVars, invoke, cli, http, v2, config, desvio, jobs>>

\* _write_cache_if_enabled and _write_report_if_enabled
WriteCacheAndReport(e, files) ==
    [ f \in DOMAIN files \cup (IF e.write_cache THEN {<<"cache", "json">>} ELSE {})
                        \cup (IF e.write_report THEN {<<"report/index", "html">>} ELSE {}) |->
        IF f \in DOMAIN files THEN files[f]
        ELSE IF f = <<"cache", "json">> THEN e.cache_entities
        ELSE [ total_modules |-> Cardinality(DOMAIN e.module_counts), status_rows |-> e.records ] ]

\* run_exports after its loops: status.csv and status.json, the cache, the report, the summary
ExportEnd ==
    /\ export.pc = "called"
    /\ export.idx > Len(ModuleSpecs)
    /\ export.aidx > Len(ArtifactSpecs)
    /\ export' = [ export EXCEPT
                     !.pc = "returned",
                     !.files = WriteCacheAndReport(export,
                                 Put(Put(export.files, CsvOf("status"), export.records),
                                     JsonOf("status"), export.records)),
                     !.ret = [ status_count |-> Len(export.records), module_counts |-> export.module_counts,
                               report_path |-> IF export.write_report THEN "report/index.html" ELSE "" ] ]
    /\ UNCHANGED <<engineVars, invoke, cli, http, v2, config, desvio, jobs>>

ExportNext == ExportModule \/ ExportArtifact \/ ExportEnd

ExportSpec == ExportInit /\ [][ExportNext]_vars

\* ------------------------------------------------------------------ SpaceOdT command line (SpaceOdT/cli.py)

MaxCliCalls == 2

DEFAULT_REPORT_NAME == <<"report", "json">>
FIXED_MODULES == << "organizations", "locations", "people", "groups", "group_members" >>

ModuleExportResult(module, result, count, file_paths) ==
    [ module |-> module, result |-> result, count |-> count, file_paths |-> file_paths ]

\* the message of MissingTokenError, in fragments
MissingTokenError ==
    << "Missing Webex token", ". Set WEBEX_ACCESS_TOKEN (or WEBEX_TOKEN) before running this command." >>

\* an env argument: None, or a dict
NoEnv == [ given |-> FALSE, vars |-> <<>> ]
EnvOf(mapping) == [ given |-> TRUE, vars |-> mapping ]

\* env_data = env or os.environ: None and the empty dict both give os.environ
EnvData(env, os_environ) == IF env.given /\ DOMAIN env.vars # {} THEN env.vars ELSE os_environ

\* faulty variant: only WEBEX_ACCESS_TOKEN is looked at
resolve_token_access_only(env, os_environ) ==
    IF Truthy(Get(EnvData(env, os_environ), "WEBEX_ACCESS_TOKEN"))
    THEN [ raised |-> FALSE, token |-> Get(EnvData(env, os_environ), "WEBEX_ACCESS_TOKEN") ]
    ELSE [ raised |-> TRUE, token |-> None ]

\* resolve_token(env): the token, or MissingTokenError
resolve_token(env, os_environ) ==
    IF Truthy(Or(Get(EnvData(env, os_environ), "WEBEX_ACCESS_TOKEN"),
                 Get(EnvData(env, os_environ), "WEBEX_TOKEN")))
    THEN [ raised |-> FALSE,
           token |-> Or(Get(EnvData(env, os_environ), "WEBEX_ACCESS_TOKEN"),
                        Get(EnvData(env, os_environ), "WEBEX_TOKEN")) ]
    ELSE [ raised |-> TRUE, token |-> None ]

\* faulty variant: the flag is ignored
module_list_all(skip_group_members) == FIXED_MODULES

module_list(skip_group_members) ==
    IF ~skip_group_members THEN FIXED_MODULES
    ELSE SelectSeq(FIXED_MODULES, LAMBDA module : module # "group_members")

\* what export_module writes to <out_dir>/<module>.json
ModulePayload(module) == [ module |-> module, items |-> <<>> ]

\* the ModuleExportResult export_module returns
export_module(module) ==
    ModuleExportResult(module, "ok", Len(ModulePayload(module).items), <<JsonOf(module)>>)

\* the files of out_dir once export_module has run for each module of the list
RECURSIVE ExportedFiles(_, _)
ExportedFiles(files, modules) ==
    IF modules = <<>> THEN files
    ELSE ExportedFiles(Put(files, JsonOf(Head(modules)), ModulePayload(Head(modules))), Tail(modules))

RECURSIVE TotalItems(_)
TotalItems(results) == IF results = <<>> THEN 0 ELSE Head(results).count + TotalItems(Tail(results))

\* faulty variant: the report counts the fixed list, not the results
report_payload_fixed(results) ==
    [ modules |-> results, total_modules |-> Len(FIXED_MODULES), total_items |-> TotalItems(results) ]

report_payload(results) ==
    [ modules |-> results, total_modules |-> Len(results), total_items |-> TotalItems(results) ]

ResultsOf(modules) == [ i \in 1..Len(modules) |-> export_module(modules[i]) ]

\* the files run_exports leaves in out_dir for the given module list
FilesAfterExports(files, modules, no_report) ==
    IF no_report THEN ExportedFiles(files, modules)
    ELSE Put(ExportedFiles(files, modules), DEFAULT_REPORT_NAME, report_payload(ResultsOf(modules)))

\* the paths run_exports writes, in the order it writes them
WritesOf(modules, no_report) ==
    [ i \in 1..Len(modules) |-> JsonOf(modules[i]) ] \o (IF no_report THEN <<>> ELSE <<DEFAULT_REPORT_NAME>>)

\* run_exports(out_dir=, no_report=, skip_group_members=, env=): the exception or the
\* results, the output directory it leaves and the paths it wrote
run_exports(out_dir, no_report, skip_group_members, env, os_environ) ==
    IF resolve_token(env, os_environ).raised
    THEN [ raised |-> TRUE, results |-> <<>>, out_dir |-> out_dir, written |-> <<>> ]
    ELSE [ raised |-> FALSE,
           results |-> ResultsOf(module_list(skip_group_members)),
           out_dir |-> [ exists |-> TRUE,
                         files |-> FilesAfterExports(out_dir.files, module_list(skip_group_members), no_report) ],
           written |-> WritesOf(module_list(skip_group_members), no_report) ]

\* format_summary_line(result)
format_summary_line(result) == << result.module, " -> ", result.result, " -> ", result.count, " -> ", result.file_paths >>

\* what main prints and returns for the outcome r of run_exports
MainOutcome(r) ==
    IF r.raised
    THEN [ exit_code |-> 2, stdout |-> << <<"Error: ">> \o MissingTokenError >> ]
    ELSE [ exit_code |-> 0, stdout |-> [ i \in 1..Len(r.results) |-> format_summary_line(r.results[i]) ] ]

\* environments: each variable unset, set but empty, or set
Environments ==
    { [ k \in keys |-> IF k = "WEBEX_ACCESS_TOKEN" THEN a ELSE t ] :
        keys \in SUBSET {"WEBEX_ACCESS_TOKEN", "WEBEX_TOKEN"}, a \in {"", "token-a"}, t \in {"", "token-t"} }

\* the output directory before a call: absent, or left by an earlier run
OutDirs ==
    { [ exists |-> FALSE, files |-> <<>> ],
      [ exists |-> TRUE, files |-> <<>> ],
      [ exists |-> TRUE,
        files |-> Put(Put(<<>>, JsonOf("group_members"), "stale"), DEFAULT_REPORT_NAME, "stale") ] }

CliInit ==
    /\ cli \in [ pc : {"ready"}, os_environ : Environments, out_dir : OutDirs, calls : {0},
                 op : {"none"}, no_report : {FALSE}, skip_group_members : {FALSE},
                 raised : {FALSE}, results : {<<>>}, written : {<<>>},
                 exit_code : {None}, stdout : {<<>>} ]
    /\ invoke = NoInvoke
    /\ export = NoExport
    /\ http = NoHttp
    /\ v2 = NoV2
    /\ config = NoConfig
    /\ desvio = NoDesvio
    /\ jobs = NoJobs
    /\ EngineIdle

\* the state after a call of op with outcome r
CliCalled(op, no_report, skip_group_members, r, exit_code, stdout) ==
    /\ cli.pc = "ready"
    /\ cli.calls < MaxCliCalls
    /\ cli' = [ cli EXCEPT !.calls = @ + 1, !.op = op, !.no_report = no_report,
                           !.skip_group_members = skip_group_members,
                           !.raised = r.raised, !.results = r.results, !.written = r.written,
                           !.out_dir = r.out_dir, !.exit_code = exit_code, !.stdout = stdout ]
    /\ UNCHANGED <<engineVars, invoke, export, http, v2, config, desvio, jobs>>

\* main(["export-all", "--out-dir", d, ...]): run_exports is called without env
Main(no_report, skip_group_members) ==
    CliCalled("main", no_report, skip_group_members,
              run_exports(cli.out_dir, no_report, skip_group_members, NoEnv, cli.os_environ),
              MainOutcome(run_exports(cli.out_dir, no_report, skip_group_members, NoEnv, cli.os_environ)).exit_code,
              MainOutcome(run_exports(cli.out_dir, no_report, skip_group_members, NoEnv, cli.os_environ)).stdout)

\* run_exports called directly, with an env argument
RunExports(no_report, skip_group_members, env) ==
    CliCalled("run_exports", no_report, skip_group_members,
              run_exports(cli.out_dir, no_report, skip_group_members, env, cli.os_environ),
              None, <<>>)

CliNext ==
    \/ \E no_report \in BOOLEAN, skip_group_members \in BOOLEAN : Main(no_report, skip_group_members)
    \/ \E no_report \in BOOLEAN, skip_group_members \in BOOLEAN,
          env \in {NoEnv, EnvOf(<<>>), EnvOf([ k \in {"WEBEX_ACCESS_TOKEN"} |-> "fake-token" ])} :
            RunExports(no_report, skip_group_members, env)

CliSpec == CliInit /\ [][CliNext]_vars

\* ------------------------------------------------------------------ the v21 UI (Space_OdT/v21/ui.py)

MaxRequests == 2

\* the exceptions a call made while serving a request can raise
UiExceptions == {"MissingV21InputsError", "FileNotFoundError", "ValueError", "RuntimeError"}

\* what the runner, SDK or loader call of a request does: it returns ("ok"; "running" is a job
\* whose status is 'running') or it raises
CallOutcomes == {"ok", "running"} \cup UiExceptions

\* a path is its non-empty segments, and whether it ends with a slash
PathOf(parts, trailing) == [parts |-> parts, trailing |-> trailing]

GetPaths ==
    { PathOf(<<>>, FALSE),
      PathOf(<<"api", "plan">>, FALSE),
      PathOf(<<"api", "plan">>, TRUE),
      PathOf(<<"api", "location-state", "current">>, FALSE),
      PathOf(<<"api", "location-jobs", "async-info">>, FALSE),
      PathOf(<<"api", "location-ids">>, FALSE),
      PathOf(<<"api", "location-jobs">>, FALSE),
      PathOf(<<"api", "location-jobs">>, TRUE),
      PathOf(<<"api", "location-jobs", "job-1">>, FALSE),
      PathOf(<<"api", "location-jobs", "job-1", "result">>, FALSE),
      PathOf(<<"api", "location-jobs", "job-1", "start">>, FALSE),
      PathOf(<<"nope">>, FALSE) }

PostPaths ==
    { PathOf(<<"api", "transformacion", "configurar-pstn">>, FALSE),
      PathOf(<<"api", "transformacion", "alta-numeraciones">>, FALSE),
      PathOf(<<"api", "transformacion", "actualizar-cabecera">>, FALSE),
      PathOf(<<"api", "location-jobs">>, FALSE),
      PathOf(<<"api", "location-wbxc-jobs">>, FALSE),
      PathOf(<<"api", "location-jobs", "job-1", "start">>, FALSE),
      PathOf(<<"api", "location-jobs", "start">>, FALSE),
      PathOf(<<"api", "location-jobs", "job-1", "now", "start">>, FALSE),
      PathOf(<<"api", "location-jobs", "job-1">>, FALSE),
      PathOf(<<"api", "plan">>, FALSE) }

ContentTypes == {"application/json", "multipart/form-data", "text/plain"}

\* what the request body decodes to: a JSON object, a JSON list, or nothing that json.loads accepts
Bodies == {"object", "list", "malformed"}

GetRequests ==
    [ method : {"GET"}, path : GetPaths, org_id : {"", "org-1"}, ctype : {""}, body : {""} ]

PostRequests ==
    [ method : {"POST"}, path : PostPaths, org_id : {""}, ctype : ContentTypes, body : Bodies ]

NoRequest == [method |-> "none"]
NoResponse == [sent |-> FALSE, status |-> 0, content_type |-> None, keys |-> {}, escaped |-> None]

\* parsed.path == '/...'
PathIs(req, parts) == req.path.parts = parts /\ ~req.path.trailing

\* parsed.path.startswith('/api/location-jobs/')
StartsWithLocationJobs(req) ==
    /\ Len(req.path.parts) >= 2
    /\ SubSeq(req.path.parts, 1, 2) = <<"api", "location-jobs">>
    /\ (Len(req.path.parts) >= 3 \/ req.path.trailing)

\* parsed.path.endswith('/start')
EndsWithStart(req) ==
    /\ ~req.path.trailing
    /\ Len(req.path.parts) >= 1
    /\ req.path.parts[Len(req.path.parts)] = "start"

\* Handler._send: a JSON body (here its top-level keys) under the given status
Send(keys, status) ==
    [sent |-> TRUE, status |-> status, content_type |-> "application/json", keys |-> keys,
     escaped |-> None]

\* the page served at '/'
HtmlPage ==
    [sent |-> TRUE, status |-> 200, content_type |-> "text/html", keys |-> {}, escaped |-> None]

\* an exception no except clause of the handler catches: it leaves do_GET / do_POST and
\* nothing is written to the client
Escapes(exc) ==
    [sent |-> FALSE, status |-> 0, content_type |-> None, keys |-> {}, escaped |-> exc]

\* what runner.load_plan_rows() raises: MissingV21InputsError when an input file is absent,
\* and whatever the loaders raise on the files that are there
PlanCall(out, files) ==
    IF EnsureInputs(files).exc # None THEN EnsureInputs(files).exc
    ELSE IF out \in UiExceptions THEN out
    ELSE None

\* what a runner or SDK call raises
RunnerCall(out) == IF out \in UiExceptions THEN out ELSE None

\* Handler._parse_json_body: the exception it raises, if any
ParseJsonBody(req) ==
    IF req.ctype # "application/json" THEN "ValueError"
    ELSE IF req.body = "malformed" THEN "JSONDecodeError"
    ELSE IF req.body # "object" THEN "ValueError"
    ELSE None

\* Handler._parse_upload: the exception it raises, if any (a multipart upload carries a .json file)
ParseUpload(req) ==
    IF req.ctype \in {"application/json", "multipart/form-data"}
    THEN IF req.body = "malformed" THEN "JSONDecodeError"
         ELSE IF req.body # "list" THEN "ValueError"
         ELSE None
    ELSE "ValueError"

\* the first exception of two steps run one after the other
FirstOf(first, second) == IF first # None THEN first ELSE second

\* Handler.do_GET
do_GET(req, out, files) ==
    IF PathIs(req, <<>>) THEN HtmlPage
    ELSE IF PathIs(req, <<"api", "plan">>)
    THEN IF PlanCall(out, files) = None THEN Send({"items"}, 200)
         ELSE IF PlanCall(out, files) = MissingV21InputsError THEN Send({"error"}, 400)
         ELSE Escapes(PlanCall(out, files))
    ELSE IF PathIs(req, <<"api", "location-state", "current">>)
    THEN IF RunnerCall(out) = None THEN Send({"payload"}, 200) ELSE Escapes(RunnerCall(out))
    ELSE IF PathIs(req, <<"api", "location-jobs", "async-info">>)
    THEN IF RunnerCall(out) = None THEN Send({"payload"}, 200) ELSE Escapes(RunnerCall(out))
    ELSE IF PathIs(req, <<"api", "location-ids">>)
    THEN IF req.org_id = "" THEN Send({"error"}, 400)
         ELSE IF RunnerCall(out) = None THEN Send({"payload"}, 200)
         ELSE Send({"error"}, 400)
    ELSE IF StartsWithLocationJobs(req) /\ Len(req.path.parts) = 3
    THEN IF RunnerCall(out) = None THEN Send({"payload"}, 200)
         ELSE IF RunnerCall(out) = "FileNotFoundError" THEN Send({"error"}, 404)
         ELSE Escapes(RunnerCall(out))
    ELSE IF StartsWithLocationJobs(req) /\ Len(req.path.parts) = 4 /\ req.path.parts[4] = "result"
    THEN IF RunnerCall(out) = None THEN Send({"payload"}, 200)
         ELSE IF RunnerCall(out) = "FileNotFoundError" THEN Send({"error"}, 404)
         ELSE Escapes(RunnerCall(out))
    ELSE Send({"error"}, 404)

\* Handler.do_POST
do_POST(req, out) ==
    IF \/ PathIs(req, <<"api", "transformacion", "configurar-pstn">>)
       \/ PathIs(req, <<"api", "transformacion", "alta-numeraciones">>)
       \/ PathIs(req, <<"api", "transformacion", "actualizar-cabecera">>)
    THEN IF FirstOf(ParseJsonBody(req), RunnerCall(out)) = None THEN Send({"payload"}, 200)
         ELSE Send({"status", "error"}, 400)
    ELSE IF PathIs(req, <<"api", "location-jobs">>) \/ PathIs(req, <<"api", "location-wbxc-jobs">>)
    THEN IF FirstOf(ParseUpload(req), RunnerCall(out)) = None THEN Send({"job", "count", "preview"}, 200)
         ELSE Send({"error"}, 400)
    ELSE IF StartsWithLocationJobs(req) /\ EndsWithStart(req)
    THEN IF Len(req.path.parts) # 4 THEN Send({"error"}, 400)
         ELSE IF RunnerCall(out) = "FileNotFoundError" THEN Send({"error"}, 404)
         ELSE IF RunnerCall(out) # None THEN Escapes(RunnerCall(out))
         ELSE Send({"job", "message"}, 200)
    ELSE Send({"error"}, 404)

\* the job a POST .../start hands to a background thread, if it does
StartedJob(req, out) ==
    IF /\ StartsWithLocationJobs(req) /\ EndsWithStart(req) /\ Len(req.path.parts) = 4
       /\ out = "ok"
    THEN {req.path.parts[3]}
    ELSE {}

UiInit ==
    /\ http = [pc |-> "listening", served |-> 0, running_jobs |-> {}, request |-> NoRequest,
               out |-> "ok", response |-> NoResponse]
    /\ invoke = NoInvoke
    /\ export = NoExport
    /\ cli = NoCli
    /\ v2 = NoV2
    /\ config = NoConfig
    /\ desvio = NoDesvio
    /\ jobs = NoJobs
    /\ locations = <<>>
    /\ users = <<>>
    /\ workspaces = <<>>
    /\ policy = ExecPolicy
    /\ plan_rows = <<>>
    /\ planned = FALSE
    /\ remote = NoRemote
    /\ action_state = NoFile
    /\ run_state = NoFile
    /\ plan_csv = NoFile
    /\ ret = NoCall
    /\ run = NoRun
    /\ ops = 0
    /\ faults = 0
    /\ action_payload = <<>>
    /\ input_files \in {InputFiles} \cup { InputFiles \ {f} : f \in InputFiles }

\* one GET request served by Handler.do_GET; /api/plan runs load_plan_rows, which bootstraps
\* the missing input files
ServeGet(req, out) ==
    /\ http.served < MaxRequests
    /\ http' = [http EXCEPT !.pc = "served", !.served = @ + 1, !.request = req, !.out = out,
                            !.response = do_GET(req, out, input_files)]
    /\ input_files' = IF PathIs(req, <<"api", "plan">>)
                      THEN EnsureInputs(input_files).files
                      ELSE input_files
    /\ UNCHANGED <<inputVars, planVars, execVars, resolveVars, invoke, export, cli, v2, config, desvio, jobs>>

\* one POST request served by Handler.do_POST
ServePost(req, out) ==
    /\ http.served < MaxRequests
    /\ http' = [http EXCEPT !.pc = "served", !.served = @ + 1, !.request = req, !.out = out,
                            !.response = do_POST(req, out),
                            !.running_jobs = @ \cup StartedJob(req, out)]
    /\ UNCHANGED <<engineVars, invoke, export, cli, v2, config, desvio, jobs>>

UiNext ==
    \/ \E req \in GetRequests, out \in CallOutcomes : ServeGet(req, out)
    \/ \E req \in PostRequests, out \in CallOutcomes : ServePost(req, out)

UiSpec == UiInit /\ [][UiNext]_vars


\* ------------------------------------------------------------------ the V2 stage list (Space_OdT/v2/engine.py)

\* Stage.ASSIGN_CALLING_LICENSE, the stage of every record
ASSIGN_CALLING_LICENSE == "ASSIGN_CALLING_LICENSE"

\* the optional stages in their fixed order, each with the payload field that enables it
OptionalStages ==
    << <<"APPLY_NUMBERS_UPDATE", "alternate_numbers">>,
       <<"APPLY_FORWARDING", "cf_always_enabled">>,
       <<"APPLY_VOICEMAIL", "voicemail_enabled">>,
       <<"APPLY_CALL_INTERCEPT", "intercept_enabled">>,
       <<"APPLY_PERMISSIONS", "incoming_permissions_mode">>,
       <<"APPLY_CALL_QUEUE_MEMBERSHIPS", "call_queue_names">> >>

OptionalFields == { OptionalStages[i][2] : i \in 1..Len(OptionalStages) }

\* the values a payload field can hold when the input row has it
FieldValues(field) ==
    IF field \in {"cf_always_enabled", "voicemail_enabled", "intercept_enabled"} THEN {"True", "False"}
    ELSE IF field = "alternate_numbers" THEN {"", "{}"}
    ELSE IF field = "incoming_permissions_mode" THEN {"", "custom"}
    ELSE {"", "queue 1"}

AllFieldValues == UNION { FieldValues(field) : field \in OptionalFields }

\* InputRecord.payload: the optional columns of one row of input_softphones.csv
V2Payloads ==
    UNION { { payload \in [keys -> AllFieldValues] :
                \A field \in keys : payload[field] \in FieldValues(field) }
            : keys \in SUBSET OptionalFields }

\* InputRecord, with the required fields of every row
InputRecord(payload) ==
    [row_number |-> 2, user_email |-> "user@example.com", calling_license_id |-> "lic-1",
     location_id |-> "loc-1", extension |-> "1001", phone_number |-> None, payload |-> payload]

\* a faulty variant of StagesFrom: forwarding and voicemail are emitted whether enabled or not
RECURSIVE StagesFromUnguarded(_, _)
StagesFromUnguarded(record, i) ==
    IF i > Len(OptionalStages) THEN <<>>
    ELSE (IF \/ Truthy(Get(record.payload, OptionalStages[i][2]))
             \/ OptionalStages[i][1] \in {"APPLY_FORWARDING", "APPLY_VOICEMAIL"}
          THEN <<OptionalStages[i][1]>>
          ELSE <<>>) \o StagesFromUnguarded(record, i + 1)

\* the optional stages of a record from the i-th on: a stage is emitted when its field is set
RECURSIVE StagesFrom(_, _)
StagesFrom(record, i) ==
    IF i > Len(OptionalStages) THEN <<>>
    ELSE (IF Truthy(Get(record.payload, OptionalStages[i][2]))
          THEN <<OptionalStages[i][1]>>
          ELSE <<>>) \o StagesFrom(record, i + 1)

\* V2Runner._build_stages
BuildStages(record) == <<ASSIGN_CALLING_LICENSE>> \o StagesFrom(record, 1)

V2Init ==
    /\ v2 \in [pc : {"called"}, record : { InputRecord(payload) : payload \in V2Payloads },
                stages : {<<>>}]
    /\ invoke = NoInvoke
    /\ export = NoExport
    /\ cli = NoCli
    /\ http = NoHttp
    /\ config = NoConfig
    /\ desvio = NoDesvio
    /\ jobs = NoJobs
    /\ EngineIdle

\* one call of V2Runner._build_stages(record)
V2BuildStages ==
    /\ v2.pc = "called"
    /\ v2' = [v2 EXCEPT !.pc = "built", !.stages = BuildStages(v2.record)]
    /\ UNCHANGED <<engineVars, invoke, export, cli, http, config, desvio, jobs>>

V2Next == V2BuildStages

V2Spec == V2Init /\ [][V2Next]_vars


\* ------------------------------------------------------------------ the V2 stage decision (Space_OdT/v2/engine.py)

MaxNameLen == 3

\* the characters file names are made of
NameChars == {"o", "v", ".", "c"}

\* the file names an operator may type after 'yesbut': no blank in them
FileNames == UNION { [1..n -> NameChars] : n \in 1..MaxNameLen }

\* the answers an operator types, as their characters
DecisionTexts ==
    { <<"y", "e", "s">>, <<"n", "o">> }
    \cup { <<"y", "e", "s", "b", "u", "t", " ">> \o name : name \in FileNames }

\* the index of the first blank of a text, 0 when it has none
FirstBlank(text) ==
    IF \E i \in 1..Len(text) : text[i] = " "
    THEN CHOOSE i \in 1..Len(text) : text[i] = " " /\ \A j \in 1..(i - 1) : text[j] # " "
    ELSE 0

\* the first word of a text and what follows its first blank (None when nothing does)
Words(text) ==
    IF FirstBlank(text) = 0 THEN [word |-> text, rest |-> None]
    ELSE [word |-> SubSeq(text, 1, FirstBlank(text) - 1),
          rest |-> SubSeq(text, FirstBlank(text) + 1, Len(text))]

\* a faulty variant of parse_stage_decision: the whole answer is taken as the file name
parse_stage_decision_whole(text) ==
    IF Words(text).word = <<"y", "e", "s">> THEN <<"YES", None>>
    ELSE IF Words(text).word = <<"n", "o">> THEN <<"NO", None>>
    ELSE <<"YESBUT", text>>

\* parse_stage_decision: the pair (StageDecision, file argument)
parse_stage_decision(text) ==
    IF Words(text).word = <<"y", "e", "s">> THEN <<"YES", None>>
    ELSE IF Words(text).word = <<"n", "o">> THEN <<"NO", None>>
    ELSE <<"YESBUT", Words(text).rest>>

DecisionInit ==
    /\ v2 \in [pc : {"asked"}, text : DecisionTexts, decision : {<<>>}]
    /\ invoke = NoInvoke
    /\ export = NoExport
    /\ cli = NoCli
    /\ http = NoHttp
    /\ config = NoConfig
    /\ desvio = NoDesvio
    /\ jobs = NoJobs
    /\ EngineIdle

\* one call of parse_stage_decision(text)
ParseDecision ==
    /\ v2.pc = "asked"
    /\ v2' = [v2 EXCEPT !.pc = "parsed", !.decision = parse_stage_decision(v2.text)]
    /\ UNCHANGED <<engineVars, invoke, export, cli, http, config, desvio, jobs>>

DecisionNext == ParseDecision

DecisionSpec == DecisionInit /\ [][DecisionNext]_vars

\* ------------------------------------------------------------------ the configuration contract (SpaceOdT/config.py)

MaxVersion == 2

CONFIG_CONTRACT_VERSION == 1

ENABLED_MODULES == <<"spaces", "messages", "memberships", "attachments">>

\* the dataclass FeatureToggles; its defaults are all True
FeatureToggles(group_members, report_enabled, cache_enabled) ==
    [group_members |-> group_members, report_enabled |-> report_enabled,
     cache_enabled |-> cache_enabled]

\* the dataclass SchemaVersions; its defaults are 1 and 1
SchemaVersions(export_version, cache_version) ==
    [export |-> export_version, cache |-> cache_version]

\* the dataclass SpaceOdTConfig
SpaceOdTConfig(contract_version, enabled_modules, toggles, schema_versions) ==
    [contract_version |-> contract_version, enabled_modules |-> enabled_modules,
     toggles |-> toggles, schema_versions |-> schema_versions]

\* SpaceOdTConfig() with every default
DEFAULT_CONFIG ==
    SpaceOdTConfig(CONFIG_CONTRACT_VERSION, ENABLED_MODULES, FeatureToggles(TRUE, TRUE, TRUE),
                   SchemaVersions(1, 1))

\* a faulty variant of FeatureToggles_as_dict: cache_enabled is reported as report_enabled
FeatureToggles_as_dict_mixed(self) ==
    [group_members |-> self.group_members, report_enabled |-> self.report_enabled,
     cache_enabled |-> self.report_enabled]

\* FeatureToggles.as_dict
FeatureToggles_as_dict(self) ==
    [group_members |-> self.group_members, report_enabled |-> self.report_enabled,
     cache_enabled |-> self.cache_enabled]

\* SchemaVersions.as_dict
SchemaVersions_as_dict(self) == [export |-> self.export, cache |-> self.cache]

\* list(t) of a tuple: a list of the same items in the same order
ListOf(t) == [i \in 1..Len(t) |-> t[i]]

\* SpaceOdTConfig.as_dict
SpaceOdTConfig_as_dict(self) ==
    [contract_version |-> self.contract_version,
     enabled_modules |-> ListOf(self.enabled_modules),
     toggles |-> FeatureToggles_as_dict(self.toggles),
     schema_versions |-> SchemaVersions_as_dict(self.schema_versions)]

\* the configuration objects a consumer may build
ConfigInit ==
    /\ config \in [ pc : {"built"},
                    object : { SpaceOdTConfig(contract_version, ENABLED_MODULES,
                                              FeatureToggles(g, r, c), SchemaVersions(e, k)) :
                                 contract_version \in 1..MaxVersion,
                                 g \in BOOLEAN, r \in BOOLEAN, c \in BOOLEAN,
                                 e \in 1..MaxVersion, k \in 1..MaxVersion },
                    data : {<<>>}, toggles : {<<>>}, versions : {<<>>} ]
    /\ invoke = NoInvoke
    /\ export = NoExport
    /\ cli = NoCli
    /\ http = NoHttp
    /\ v2 = NoV2
    /\ desvio = NoDesvio
    /\ jobs = NoJobs
    /\ EngineIdle

\* config.as_dict(), config.toggles.as_dict() and config.schema_versions.as_dict()
ConfigAsDict ==
    /\ config.pc = "built"
    /\ config' = [config EXCEPT !.pc = "serialized",
                                !.data = SpaceOdTConfig_as_dict(config.object),
                                !.toggles = FeatureToggles_as_dict(config.object.toggles),
                                !.versions = SchemaVersions_as_dict(config.object.schema_versions)]
    /\ UNCHANGED <<engineVars, invoke, export, cli, http, v2, desvio, jobs>>

ConfigNext == ConfigAsDict

ConfigSpec == ConfigInit /\ [][ConfigNext]_vars

\* ------------------------------------------------------------------ forwarding to prefix 53 (v21/transformacion)

\* the person IDs the script is called with: the platform's person, and one it does not hold
DesvioPersonIds == {RemotePersonId, "person-404"}

\* the platform holds the person of that ID
PersonHeld(c, person_id) == person_id = RemotePersonId /\ c.remote.person

\* destination or f'53{extension}', as its parts
TargetDestination(destination, extension) ==
    IF Truthy(destination) THEN <<destination>> ELSE <<"53", extension>>

\* faulty variant: the second read is left out, `after` is the snapshot taken before
ConfigurarDesvioNoReread(c, person_id, extension, destination) ==
    Then(CallOn(c, "person_settings.forwarding.read", PersonHeld(c, person_id)), LAMBDA c1 :
    Then(Configure(c1, "person_settings.forwarding.configure", PersonHeld(c1, person_id)), LAMBDA c2 :
      Return(c2, [ status |-> "success",
                   api_response |->
                     [ before |-> [forwarding |-> Setting(c1, "person_settings.forwarding.configure")],
                       after |-> [forwarding |-> Setting(c1, "person_settings.forwarding.configure")],
                       request |-> [ entity_id |-> person_id,
                                     destination |-> TargetDestination(destination, extension) ] ] ])))

\* configurar_desvio_prefijo53_usuario: read, configure, read; no exception is caught
ConfigurarDesvio(c, person_id, extension, destination) ==
    Then(CallOn(c, "person_settings.forwarding.read", PersonHeld(c, person_id)), LAMBDA c1 :
    Then(Configure(c1, "person_settings.forwarding.configure", PersonHeld(c1, person_id)), LAMBDA c2 :
    Then(CallOn(c2, "person_settings.forwarding.read", PersonHeld(c2, person_id)), LAMBDA c3 :
      Return(c3, [ status |-> "success",
                   api_response |->
                     [ before |-> [forwarding |-> Setting(c1, "person_settings.forwarding.configure")],
                       after |-> [forwarding |-> Setting(c3, "person_settings.forwarding.configure")],
                       request |-> [ entity_id |-> person_id,
                                     destination |-> TargetDestination(destination, extension) ] ] ]))))

\* one call of the script's function, with fail_at the SDK call the environment makes raise
Desvio(person_id, extension, destination, fail_at) ==
    /\ ops < MaxOps
    /\ fail_at > 0 => faults < MaxFaults
    /\ FaultBudget(ConfigurarDesvio(Ctx(remote, <<>>, fail_at), person_id, extension, destination), fail_at)
    /\ remote' = ConfigurarDesvio(Ctx(remote, <<>>, fail_at), person_id, extension, destination).remote
    /\ desvio' =
         [ pc |-> "done", n |-> ops + 1,
           calls |-> ConfigurarDesvio(Ctx(remote, <<>>, fail_at), person_id, extension, destination).calls,
           raised |-> ConfigurarDesvio(Ctx(remote, <<>>, fail_at), person_id, extension, destination).exc,
           result |-> ConfigurarDesvio(Ctx(remote, <<>>, fail_at), person_id, extension, destination).val ]
    /\ ops' = ops + 1
    /\ UNCHANGED <<inputVars, planVars, resolveVars, fileVars, action_state, run_state, plan_csv,
                   ret, run, invoke, export, cli, http, v2, config, jobs>>

\* the engine applies actions and the script is run, one call after the other; the
\* environment makes SDK calls of the script raise
ReadBackNext ==
    \/ \E action_id \in 0..PlanLength : SingleAction(action_id, TRUE, 0)
    \/ \E person_id \in DesvioPersonIds, destination \in {None, "+5381234"}, fail_at \in 0..3 :
         Desvio(person_id, "1234", destination, fail_at)

ReadBackSpec == Init /\ [][ReadBackNext]_vars

\* ------------------------------------------------------------------ starting jobs from the UI

MaxStarts == 3
MaxHandlers == 2

JobIds == {"job-a", "job-b"}

\* ThreadingHTTPServer serves every request on a thread of its own
Handlers == 1..MaxHandlers

IdleHandler == [pc |-> "idle", job_id |-> None, job |-> None]

\* the background threads of one job that are inside process_location_job
Processing(j, job_id) ==
    { t \in 1..Len(j.threads) : j.threads[t].job_id = job_id /\ j.threads[t].pc = "processing" }

JobInit ==
    \* "missing" is a job that has no file
    /\ \E status \in [JobIds -> {"missing", "created", "completed", "failed"}] :
         jobs = [ pc |-> "serving", status |-> status, handlers |-> [h \in Handlers |-> IdleHandler],
                  threads |-> <<>>, running_jobs |-> [job_id \in JobIds |-> 0],
                  answers |-> <<>>, starts |-> 0 ]
    /\ invoke = NoInvoke
    /\ export = NoExport
    /\ cli = NoCli
    /\ http = NoHttp
    /\ v2 = NoV2
    /\ config = NoConfig
    /\ desvio = NoDesvio
    /\ locations = <<>>
    /\ users = <<>>
    /\ workspaces = <<>>
    /\ policy = ExecPolicy
    /\ EngineIdle

\* do_POST for /api/location-jobs/<job_id>/start up to runner.get_job: the handler reads the
\* persisted job, or answers 404 when there is none
StartRequest(h, job_id) ==
    /\ jobs.pc = "serving"
    /\ jobs.starts < MaxStarts
    /\ jobs.handlers[h].pc = "idle"
    /\ jobs' = IF jobs.status[job_id] = "missing"
               THEN [jobs EXCEPT !.starts = @ + 1,
                                 !.answers = Append(@, [job_id |-> job_id, status |-> 404,
                                                        body |-> "job not found"])]
               ELSE [jobs EXCEPT !.starts = @ + 1,
                                 !.handlers[h] = [pc |-> "read", job_id |-> job_id,
                                                  job |-> jobs.status[job_id]]]
    /\ UNCHANGED <<inputVars, planVars, execVars, resolveVars, fileVars,
                   invoke, export, cli, http, v2, config, desvio>>

\* the rest of the handler, on the job object it read: 'job already running', or a new
\* thread that is started and stored in running_jobs, and 'job started'
StartThread(h) ==
    /\ jobs.pc = "serving"
    /\ jobs.handlers[h].pc = "read"
    /\ jobs' = IF jobs.handlers[h].job = "running"
               THEN [jobs EXCEPT !.handlers[h] = IdleHandler,
                                 !.answers = Append(@, [job_id |-> jobs.handlers[h].job_id, status |-> 200,
                                                        body |-> "job already running"])]
               ELSE [jobs EXCEPT !.handlers[h] = IdleHandler,
                                 !.threads = Append(@, [job_id |-> jobs.handlers[h].job_id, pc |-> "started"]),
                                 !.running_jobs[jobs.handlers[h].job_id] = Len(jobs.threads) + 1,
                                 !.answers = Append(@, [job_id |-> jobs.handlers[h].job_id, status |-> 200,
                                                        body |-> "job started"])]
    /\ UNCHANGED <<inputVars, planVars, execVars, resolveVars, fileVars,
                   invoke, export, cli, http, v2, config, desvio>>

\* the thread is inside process_location_job, which marks the job as running
ThreadBegin(t) ==
    /\ jobs.pc = "serving"
    /\ t \in 1..Len(jobs.threads)
    /\ jobs.threads[t].pc = "started"
    /\ jobs' = [jobs EXCEPT !.threads[t].pc = "processing",
                            !.status[jobs.threads[t].job_id] = "running"]
    /\ UNCHANGED <<inputVars, planVars, execVars, resolveVars, fileVars,
                   invoke, export, cli, http, v2, config, desvio>>

\* process_location_job returns: the job is completed and _run_job_background ends
ThreadEnd(t) ==
    /\ jobs.pc = "serving"
    /\ t \in 1..Len(jobs.threads)
    /\ jobs.threads[t].pc = "processing"
    /\ jobs' = [jobs EXCEPT !.threads[t].pc = "ended",
                            !.status[jobs.threads[t].job_id] = "completed"]
    /\ UNCHANGED <<inputVars, planVars, execVars, resolveVars, fileVars,
                   invoke, export, cli, http, v2, config, desvio>>

\* process_location_job raises: _run_job_background saves the job as failed
ThreadFail(t) ==
    /\ jobs.pc = "serving"
    /\ t \in 1..Len(jobs.threads)
    /\ jobs.threads[t].pc \in {"started", "processing"}
    /\ jobs' = [jobs EXCEPT !.threads[t].pc = "ended",
                            !.status[jobs.threads[t].job_id] = "failed"]
    /\ UNCHANGED <<inputVars, planVars, execVars, resolveVars, fileVars,
                   invoke, export, cli, http, v2, config, desvio>>

JobNext ==
    \/ \E h \in Handlers, job_id \in JobIds : StartRequest(h, job_id)
    \/ \E h \in Handlers : StartThread(h)
    \/ \E t \in 1..MaxStarts : ThreadBegin(t)
    \/ \E t \in 1..MaxStarts : ThreadEnd(t)
    \/ \E t \in 1..MaxStarts : ThreadFail(t)

JobSpec == JobInit /\ [][JobNext]_vars

\* ------------------------------------------------------------------ claims about the planner

\* indices of the plan rows of one entity
RowsOf(entity_type, entity_key) ==
    { i \in 1..Len(plan_rows) :
        plan_rows[i].entity_type = entity_type /\ plan_rows[i].entity_key = entity_key }

IsInterval(S) == \A i, j \in S : \A k \in i..j : k \in S

\* the position of a stage in the fixed per-entity order
StageRank(stage) ==
    CASE stage = "LOCATION_CREATE_AND_ACTIVATE" -> 1
      [] stage = "LOCATION_ROUTE_GROUP_RESOLVE" -> 2
      [] stage = "LOCATION_PSTN_CONFIGURE" -> 3
      [] stage = "LOCATION_NUMBERS_ADD_DISABLED" -> 4
      [] stage = "LOCATION_MAIN_DDI_ASSIGN" -> 5
      [] stage = "LOCATION_INTERNAL_CALLING_CONFIG" -> 6
      [] stage = "LOCATION_OUTGOING_PERMISSION_DEFAULT" -> 7
      [] stage \in {"USER_LEGACY_INTERCOM_SECONDARY", "WORKSPACE_LEGACY_INTERCOM_SECONDARY"} -> 1
      [] stage \in {"USER_LEGACY_FORWARD_PREFIX_53", "WORKSPACE_LEGACY_FORWARD_PREFIX_53"} -> 2
      [] stage \in {"USER_OUTGOING_PERMISSION_OVERRIDE", "WORKSPACE_OUTGOING_PERMISSION_OVERRIDE"} -> 3

\* the rows of the records of one input collection: each record has a non-empty
\* contiguous block, in the fixed stage order, and the blocks are in input order
BlocksInInputOrder(rows, entity_type, Key(_)) ==
    /\ \A k \in 1..Len(rows) :
         LET block == RowsOf(entity_type, Key(rows[k]))
         IN /\ block # {}
            /\ IsInterval(block)
            /\ \A i, j \in block :
                 i < j => StageRank(plan_rows[i].stage) < StageRank(plan_rows[j].stage)
    /\ \A k, l \in 1..Len(rows) :
         k < l => \A i \in RowsOf(entity_type, Key(rows[k])), j \in RowsOf(entity_type, Key(rows[l])) : i < j

\* C8: the plan is order-preserving: action_id is the position in the list, every row
\* belongs to an input record, the records of each collection appear in input order,
\* each record's actions are contiguous and follow the fixed per-entity stage order
\* (a location's block is exactly create/activate, route-group resolve, PSTN configure,
\* numbers add, main DDI assign, internal calling config, outgoing permission default).
C8_PlanOrderPreserving ==
    planned =>
        /\ \A i \in 1..Len(plan_rows) : plan_rows[i].action_id = i - 1
        /\ \A i \in 1..Len(plan_rows) :
             \/ \E k \in 1..Len(locations) :
                  plan_rows[i].entity_type = "LOCATION" /\ plan_rows[i].entity_key = LocationKey(locations[k])
             \/ \E k \in 1..Len(users) :
                  plan_rows[i].entity_type = "USER" /\ plan_rows[i].entity_key = UserKey(users[k])
             \/ \E k \in 1..Len(workspaces) :
                  plan_rows[i].entity_type = "WORKSPACE" /\ plan_rows[i].entity_key = WorkspaceKey(workspaces[k])
        /\ BlocksInInputOrder(locations, "LOCATION", LocationKey)
        /\ BlocksInInputOrder(users, "USER", UserKey)
        /\ BlocksInInputOrder(workspaces, "WORKSPACE", WorkspaceKey)
        /\ \A k \in 1..Len(locations) :
             { StageRank(plan_rows[i].stage) : i \in RowsOf("LOCATION", LocationKey(locations[k])) } = 1..7

\* a plan of two locations, two users (one with an override) and two workspaces
C8_Witness ==
    /\ planned
    /\ Len(locations) = 2 /\ Len(users) = 2 /\ Len(workspaces) = 2
    /\ \E i \in 1..Len(plan_rows) : plan_rows[i].stage = "USER_OUTGOING_PERMISSION_OVERRIDE"
    /\ Len(plan_rows) > 18

NumbersAddRows(location) ==
    { i \in RowsOf("LOCATION", LocationKey(location)) : plan_rows[i].stage = "LOCATION_NUMBERS_ADD_DISABLED" }

SuppliesNumbers(location) == SplitPipe(location.payload.location_numbers) # <<>>

\* C9 as stated: a location whose payload supplies no numbers gets no numbers-add action.
C9_NumbersAddOnlyWithNumbers ==
    planned =>
        \A k \in 1..Len(locations) :
            ~SuppliesNumbers(locations[k]) => NumbersAddRows(locations[k]) = {}

\* C9 (amended): the planner emits exactly one numbers-add action
\* (LOCATION_NUMBERS_ADD_DISABLED) for every location, whether or not that location's
\* payload supplies numbers.
C9_NumbersAddAlwaysPlanned ==
    planned =>
        \A k \in 1..Len(locations) : Cardinality(NumbersAddRows(locations[k])) = 1

\* a planned location without numbers that has its numbers-add action
C9_Witness ==
    /\ planned
    /\ \E k \in 1..Len(locations) :
         ~SuppliesNumbers(locations[k]) /\ NumbersAddRows(locations[k]) # {}

OverrideRows(entity_type, entity_key) ==
    { i \in RowsOf(entity_type, entity_key) :
        plan_rows[i].stage \in {"USER_OUTGOING_PERMISSION_OVERRIDE", "WORKSPACE_OUTGOING_PERMISSION_OVERRIDE"} }

NonDefaultProfile(profile) == Truthy(profile) /\ profile # policy.default_outgoing_profile

\* C10: an outgoing-permission-override action is planned for a user or workspace record
\* only when the record specifies a non-default outgoing profile: a record with no
\* profile, or with the policy's default profile, gets no override action.
C10_OverrideOnlyNonDefault ==
    planned =>
        /\ \A k \in 1..Len(users) :
             OverrideRows("USER", UserKey(users[k])) # {} => NonDefaultProfile(users[k].outgoing_profile)
        /\ \A k \in 1..Len(workspaces) :
             OverrideRows("WORKSPACE", WorkspaceKey(workspaces[k])) # {}
                 => NonDefaultProfile(workspaces[k].outgoing_profile)

\* ------------------------------------------------------------------ claims about the executor

Range(seq) == { seq[i] : i \in 1..Len(seq) }

IsCall(r) == r.op = "run_single_action"

\* the entry of action_state.json for the action of the last call
Entry(r) == action_state.items[r.action_id]

C2_RunNeverAborts ==
    (run.pc \in {"returned", "raised"} /\ ~run.dry_run) =>
        /\ run.pc = "returned"
        /\ Len(run.results) = Len(run.rows)
        /\ run_state.exists

\* what an exception raised by the SDK reads as
SdkErrors == {"remote error", "remote error: 404 not found"}

\* the entity an action refers to is absent from the platform
EntityAbsent(stage) ==
    CASE stage \in {"LOCATION_CREATE_AND_ACTIVATE", "LOCATION_PSTN_CONFIGURE",
                    "LOCATION_NUMBERS_ADD_DISABLED", "LOCATION_MAIN_DDI_ASSIGN",
                    "LOCATION_INTERNAL_CALLING_CONFIG", "LOCATION_OUTGOING_PERMISSION_DEFAULT"} ->
           remote.loc_count = 0
      [] stage = "LOCATION_ROUTE_GROUP_RESOLVE" -> ~remote.route_group
      [] stage \in {"USER_LEGACY_INTERCOM_SECONDARY", "USER_LEGACY_FORWARD_PREFIX_53",
                    "USER_OUTGOING_PERMISSION_OVERRIDE"} -> ~remote.person
      [] stage \in {"WORKSPACE_LEGACY_INTERCOM_SECONDARY", "WORKSPACE_LEGACY_FORWARD_PREFIX_53",
                    "WORKSPACE_OUTGOING_PERMISSION_OVERRIDE"} -> ~remote.workspace
      [] OTHER -> FALSE

\* C3: for every stage, when the entity the action refers to does not exist remotely
\* (and no SDK call fails for another reason), the read of the 'before' snapshot does
\* not raise: run_single_action(apply=False) returns.
C3_BeforeSnapshotNeverRaises ==
    (IsCall(ret) /\ ~ret.apply /\ EntityAbsent(ret.stage) /\ ret.exc \notin SdkErrors)
        => ret.raised = None

\* C4: run_single_action(action_id, apply=False) makes no mutating SDK call and leaves
\* the remote state as it was; when it returns, after = before, changed is false, error
\* is None and the recorded status is 'previewed'. A mutating call is made only by a
\* call with apply=True.
C4_PreviewHasNoSideEffect ==
    [][ IsCall(ret') =>
          /\ (Range(ret'.calls) \cap MutatingCalls # {}) => ret'.apply
          /\ ~ret'.apply =>
               /\ remote' = remote
               /\ ret'.raised = None =>
                    /\ ret'.after = ret'.before
                    /\ ~ret'.changed
                    /\ ret'.error = None
                    /\ action_state'.items[ret'.action_id].status = "previewed"
                    /\ action_state'.items[ret'.action_id].error = None
      ]_vars

\* a preview of an action whose entity exists: the state was read, nothing applied
C4_Witness ==
    /\ IsCall(ret) /\ ~ret.apply /\ ret.raised = None
    /\ ret.stage = "LOCATION_NUMBERS_ADD_DISABLED"
    /\ Len(ret.calls) >= 2
    /\ Entry(ret).status = "previewed"

\* C6: applying LOCATION_CREATE_AND_ACTIVATE creates a location only when none carries
\* its name: locations.create is called only while no location of that name exists, so
\* over any sequence of calls (re-runs after a failed attempt included) at most one
\* location of that name exists, and an apply after a successful one does not create.
C6_CreateOnlyIfAbsent ==
    [][ /\ (IsCall(ret') /\ "locations.create" \in Range(ret'.calls)) => remote.loc_count = 0
        /\ remote'.loc_count <= 1
      ]_vars

\* a second apply of the location action, after an attempt that created the location
\* and then failed: the location is found by name and not created again
C6_Witness ==
    /\ ops = 2 /\ faults = 1
    /\ IsCall(ret) /\ ret.apply /\ ret.stage = "LOCATION_CREATE_AND_ACTIVATE"
    /\ ret.error = None /\ ret.raised = None
    /\ "locations.by_name" \in Range(ret.calls)
    /\ "locations.create" \notin Range(ret.calls)
    /\ remote.loc_count = 1
    /\ locations[1].location_id = None

\* C7: whenever an apply of LOCATION_CREATE_AND_ACTIVATE completes without error, the
\* location exists remotely and is enabled for calling.
C7_AppliedMeansEnabled ==
    (IsCall(ret) /\ ret.apply /\ ret.stage = "LOCATION_CREATE_AND_ACTIVATE"
       /\ ret.raised = None /\ ret.error = None)
        => (remote.loc_count >= 1 /\ remote.calling)

\* ------------------------------------------------------------------ claims about ID resolution

IdKey(kind) ==
    CASE kind = "location" -> "location_id" [] kind = "route_group" -> "route_group_id"
      [] kind = "person" -> "user_id" [] kind = "workspace" -> "workspace_id"

NameKey(kind) ==
    CASE kind = "location" -> "location_name" [] kind = "route_group" -> "route_group_name"
      [] kind = "person" -> "user_email" [] kind = "workspace" -> "workspace_name"

LookupCall(kind) ==
    CASE kind = "location" -> "locations.by_name"
      [] kind = "route_group" -> "telephony.prem_pstn.route_group.list"
      [] kind = "person" -> "people.list" [] kind = "workspace" -> "workspaces.list"

RemoteIdOf(kind) ==
    CASE kind = "location" -> RemoteLocationId [] kind = "route_group" -> RemoteRouteGroupId
      [] kind = "person" -> RemotePersonId [] kind = "workspace" -> RemoteWorkspaceId

ExistsRemotely(kind) ==
    CASE kind = "location" -> remote.loc_count >= 1 [] kind = "route_group" -> remote.route_group
      [] kind = "person" -> remote.person [] kind = "workspace" -> remote.workspace

\* C5: each resolver tries the direct ID first: a payload that carries the ID gets it
\* back with no SDK call at all, whether or not the entity exists remotely. Otherwise,
\* given a name (or email), exactly one lookup call is made; a hit is returned and
\* stored in the payload, a miss returns None and leaves the payload as it was. After a
\* resolution that returned an ID, the next resolution on the same payload makes no
\* SDK call and returns the same ID.
C5_ResolveDirectIdFirst ==
    [][ ret'.op = "resolve" =>
          LET kind == ret'.kind
              id == Get(action_payload, IdKey(kind))
              name == Get(action_payload, NameKey(kind))
          IN /\ Truthy(id) =>
                  /\ ret'.calls = <<>>
                  /\ ret'.raised = None
                  /\ ret'.val = id
                  /\ action_payload' = action_payload
             /\ (~Truthy(id) /\ Truthy(name)) =>
                  /\ ret'.calls = <<LookupCall(kind)>>
                  /\ (ret'.raised = None /\ ExistsRemotely(kind)) =>
                       /\ ret'.val = RemoteIdOf(kind)
                       /\ action_payload' = Put(action_payload, IdKey(kind), RemoteIdOf(kind))
                  /\ (ret'.raised = None /\ ~ExistsRemotely(kind)) =>
                       /\ ret'.val = None
                       /\ action_payload' = action_payload
             /\ (ret.op = "resolve" /\ ret.kind = kind /\ ret.raised = None /\ Truthy(ret.val)) =>
                  /\ ret'.calls = <<>>
                  /\ ret'.val = ret.val
      ]_vars

\* a resolution by name that hit: the ID is now in the payload
C5_Witness ==
    /\ ret.op = "resolve" /\ ret.kind = "location"
    /\ Get(ret.payload_before, "location_id") = None
    /\ ret.calls = <<"locations.by_name">>
    /\ ret.val = RemoteLocationId
    /\ action_payload.location_id = RemoteLocationId

\* ------------------------------------------------------------------ claims about planning and the input files

\* the files the runner writes
OutputFiles == <<action_state, run_state, plan_csv>>

\* C11 as stated: load_plan_rows() makes no remote call, leaves the input records and
\* the policy as they were, and creates or changes no file.
C11_PlanningHasNoSideEffect ==
    [][ LoadPlanRows =>
          /\ remote' = remote
          /\ ret'.calls = <<>>
          /\ UNCHANGED <<locations, users, workspaces, policy>>
          /\ UNCHANGED OutputFiles
          /\ input_files' = input_files
      ]_vars

\* C11, amended: load_plan_rows() makes no remote call, leaves the input records and
\* the policy as they were and writes none of action_state.json, run_state.json and
\* plan.csv; with every input file present it returns the plan and changes no file at
\* all, and with an input file absent it creates the absent templates, raises
\* MissingV21InputsError and returns no plan.
C11_PlanningOnlyBootstraps ==
    [][ LoadPlanRows =>
          /\ remote' = remote
          /\ ret'.calls = <<>>
          /\ UNCHANGED <<locations, users, workspaces, policy>>
          /\ UNCHANGED OutputFiles
          /\ input_files = InputFiles =>
                /\ input_files' = input_files
                /\ ret'.raised = None
                /\ planned'
                /\ plan_rows' = PlanRows(locations, users, workspaces, policy)
          /\ input_files # InputFiles =>
                /\ input_files' = InputFiles
                /\ ret'.raised = MissingV21InputsError
                /\ ret'.created = InputFiles \ input_files
                /\ UNCHANGED planVars
      ]_vars

\* a plan was made for a location whose payload got the default outgoing profile
C11_Witness ==
    /\ ret.op = "load_plan_rows" /\ ret.raised = None
    /\ planned
    /\ Len(locations) = 1
    /\ plan_rows[1].payload.default_outgoing_profile = "profile_2"
    /\ "default_outgoing_profile" \notin DOMAIN locations[1].payload

\* C15: an entry point of V21Runner (load_plan_rows, run, run_single_action) called
\* while an input file is absent creates the absent templates and raises
\* MissingV21InputsError, whose message lists the created paths; it makes no SDK call,
\* changes nothing remotely, makes no plan and writes none of plan.csv, run_state.json
\* and action_state.json.
C15_MissingInputsAreFatal ==
    [][ input_files # InputFiles =>
          /\ input_files' = InputFiles
          /\ remote' = remote
          /\ UNCHANGED OutputFiles
          /\ UNCHANGED planVars
          /\ \/ /\ ret' # ret
                /\ ret'.op \in {"load_plan_rows", "run_single_action"}
                /\ ret'.raised = MissingV21InputsError
                /\ ret'.created = InputFiles \ input_files
                /\ ret'.calls = <<>>
                /\ run' = run
             \/ /\ run' # run
                /\ run'.pc = "raised"
                /\ run'.exc = MissingV21InputsError
                /\ run'.created = InputFiles \ input_files
                /\ run'.results = <<>>
                /\ ret' = ret
      ]_vars

\* run_single_action was called while static_policy.json was absent
C15_Witness ==
    /\ ret.op = "run_single_action"
    /\ ret.raised = MissingV21InputsError
    /\ "static_policy.json" \in ret.created
    /\ input_files = InputFiles
    /\ ~action_state.exists
    /\ Len(locations) = 1

\* ------------------------------------------------------------------ claims about the retry helper

InvokeDone == invoke.pc \in {"returned", "raised"}

\* C12: when the first invocation of the handler raises a 429 error carrying
\* Retry-After: n, the helper sleeps exactly once, for n seconds, and invokes the
\* handler exactly once more with the same token and params; the result of the second
\* invocation is returned, or its error propagates. No call of the helper makes more
\* than two invocations or more than one sleep.
C12_SingleRetryAfterThrottle ==
    /\ invoke.pc # "idle" =>
         /\ Len(invoke.invocations) <= 2
         /\ Len(invoke.sleeps) <= 1
    /\ (InvokeDone /\ invoke.script[1].kind = "error" /\ invoke.script[1].status_code = 429
          /\ "Retry-After" \in DOMAIN invoke.script[1].headers) =>
         /\ invoke.sleeps = <<ParseSeconds(invoke.script[1].headers["Retry-After"])>>
         /\ invoke.invocations = <<Invocation(invoke.token, invoke.params), Invocation(invoke.token, invoke.params)>>
         /\ invoke.script[2].kind = "ok" =>
              /\ invoke.pc = "returned"
              /\ invoke.result = HandlerResult(2, invoke.token, invoke.params)
         /\ invoke.script[2].kind = "error" =>
              /\ invoke.pc = "raised"
              /\ invoke.raised = invoke.script[2]

\* the second attempt was throttled too: its error propagated after a pause of 10 s
C12_Witness ==
    /\ invoke.pc = "raised"
    /\ invoke.sleeps = <<10>>
    /\ Len(invoke.invocations) = 2
    /\ invoke.raised = HandlerError(429, RetryAfter(<<"2">>))

\* C13: when the first invocation raises a 429 error without a Retry-After header, or
\* an error that is not a 429, that error propagates after this one invocation, with no
\* sleep and no retry.
C13_OtherErrorsPropagate ==
    /\ (invoke.pc # "idle" /\ invoke.pc # "called" /\ invoke.script[1].kind = "error"
          /\ (invoke.script[1].status_code # 429 \/ "Retry-After" \notin DOMAIN invoke.script[1].headers)) =>
         /\ invoke.pc = "raised"
         /\ invoke.raised = invoke.script[1]
         /\ Len(invoke.invocations) = 1
         /\ invoke.sleeps = <<>>

\* a 503 that names a pause was not retried
C13_Witness ==
    /\ invoke.pc = "raised"
    /\ invoke.raised = HandlerError(503, RetryAfter(<<"2">>))
    /\ Len(invoke.invocations) = 1
    /\ invoke.sleeps = <<>>

\* ------------------------------------------------------------------ claims about the export runner

\* the status records of one module
RecordsOf(module_name) ==
    { i \in 1..Len(export.records) : export.records[i].module = module_name }

\* C14: run_exports never ends by an exception of a fetch, and when it has returned,
\* every enabled module has exactly one StatusRecord and its .json and .csv export: the
\* fetched rows and their count when the fetch succeeded, an empty export with count 0
\* and the classified error kind, HTTP status and message when it raised; a module
\* that is not enabled has neither; status.json and status.csv hold the records.
C14_ModulesAreIsolated ==
    /\ export.pc \in {"idle", "called", "returned"}
    /\ export.pc = "returned" =>
         /\ \A m \in export.enabled_modules :
              /\ Cardinality(RecordsOf(m)) = 1
              /\ JsonOf(m) \in DOMAIN export.files
              /\ CsvOf(m) \in DOMAIN export.files
              /\ \A i \in RecordsOf(m) :
                   IF export.fetch[m].kind = "ok"
                   THEN /\ export.records[i].result = "ok"
                        /\ export.records[i].count = Len(export.fetch[m].rows)
                        /\ export.files[JsonOf(m)] = export.fetch[m].rows
                        /\ export.files[CsvOf(m)] = export.fetch[m].rows
                   ELSE /\ export.records[i].result = ClassifyException(export.fetch[m]).err
                        /\ export.records[i].http_status = export.fetch[m].http_status
                        /\ export.records[i].error = export.fetch[m].message
                        /\ export.records[i].count = 0
                        /\ export.files[JsonOf(m)] = <<>>
                        /\ export.files[CsvOf(m)] = <<>>
         /\ \A m \in ModuleNames \ export.enabled_modules :
              /\ RecordsOf(m) = {}
              /\ JsonOf(m) \notin DOMAIN export.files
         /\ Len(export.records) = Cardinality(export.enabled_modules)
         /\ JsonOf("status") \in DOMAIN export.files
         /\ CsvOf("status") \in DOMAIN export.files
         /\ export.files[JsonOf("status")] = export.records
         /\ export.ret.status_count = Cardinality(export.enabled_modules)

\* the first module failed and the later ones were still exported
C14_Witness ==
    /\ export.pc = "returned"
    /\ export.enabled_modules = ModuleNames
    /\ export.fetch["people"].kind = "error"
    /\ export.fetch["groups"] = Fetched(1)
    /\ export.fetch["calling_locations"].kind = "error"
    /\ export.files[JsonOf("groups")] = <<"row">>
    /\ Len(export.records) = 3

\* ------------------------------------------------------------------ claims about the command line

\* the file at path f is as it was before the step
FileUntouched(f) ==
    /\ (f \in DOMAIN cli'.out_dir.files) = (f \in DOMAIN cli.out_dir.files)
    /\ f \in DOMAIN cli.out_dir.files => cli'.out_dir.files[f] = cli.out_dir.files[f]

TokenSet(key) == key \in DOMAIN cli.os_environ /\ cli.os_environ[key] # ""

\* C16: export-all run with neither WEBEX_ACCESS_TOKEN nor WEBEX_TOKEN set prints a
\* message containing 'Missing Webex token' and returns 2, and leaves the output
\* directory as it was (not created, nothing written); run with a token in either
\* variable it returns 0.
C16_MissingTokenExitsTwo ==
    [][ cli'.op = "main" =>
          /\ DOMAIN cli.os_environ = {} =>
               /\ cli'.exit_code = 2
               /\ Len(cli'.stdout) = 1
               /\ "Missing Webex token" \in Range(cli'.stdout[1])
               /\ cli'.out_dir = cli.out_dir
               /\ cli'.written = <<>>
          /\ (TokenSet("WEBEX_ACCESS_TOKEN") \/ TokenSet("WEBEX_TOKEN")) => cli'.exit_code = 0
      ]_vars

\* export-all failed for want of a token and the output directory was not created
C16_Witness ==
    /\ cli.op = "main"
    /\ cli.exit_code = 2
    /\ DOMAIN cli.os_environ = {}
    /\ ~cli.out_dir.exists

\* the modules selected by the flag, in the order of FIXED_MODULES
SelectedModules(skip_group_members) ==
    SelectSeq(FIXED_MODULES, LAMBDA m : ~(skip_group_members /\ m = "group_members"))

\* C17: a run_exports that succeeded returned one result per selected module, in the
\* order of FIXED_MODULES, and wrote <module>.json exactly once for each of them and
\* for no other module; unless no_report was set it wrote a report whose total_modules
\* is the number of results and whose modules list has one entry per result.
C17_OneFilePerModule ==
    [][ (cli'.op \in {"run_exports", "main"} /\ ~cli'.raised) =>
          /\ [ i \in 1..Len(cli'.results) |-> cli'.results[i].module ] = SelectedModules(cli'.skip_group_members)
          /\ \A i \in 1..Len(cli'.results) :
               /\ cli'.written[i] = JsonOf(cli'.results[i].module)
               /\ cli'.out_dir.files[JsonOf(cli'.results[i].module)] = ModulePayload(cli'.results[i].module)
               /\ cli'.results[i].result = "ok"
          /\ \A i, j \in 1..Len(cli'.written) : cli'.written[i] = cli'.written[j] => i = j
          /\ Range(cli'.written) \ {DEFAULT_REPORT_NAME}
               = { JsonOf(cli'.results[i].module) : i \in 1..Len(cli'.results) }
          /\ ~cli'.no_report =>
               /\ DEFAULT_REPORT_NAME \in Range(cli'.written)
               /\ cli'.out_dir.files[DEFAULT_REPORT_NAME].total_modules = Len(cli'.results)
               /\ cli'.out_dir.files[DEFAULT_REPORT_NAME].modules = cli'.results
      ]_vars

\* a run with the report that skipped group_members: four modules, four results
C17_Witness ==
    /\ cli.op = "run_exports" /\ ~cli.raised
    /\ cli.skip_group_members /\ ~cli.no_report
    /\ Len(cli.results) = 4
    /\ cli.out_dir.files[DEFAULT_REPORT_NAME].total_modules = 4

\* C18: with skip_group_members set, a run_exports that succeeded has no result for
\* group_members and left group_members.json as it was, while every other fixed
\* module has its result and its file written; with no_report set, the report file
\* is left as it was.
C18_SkipAndNoReport ==
    [][ (cli'.op \in {"run_exports", "main"} /\ ~cli'.raised) =>
          /\ cli'.skip_group_members =>
               /\ \A i \in 1..Len(cli'.results) : cli'.results[i].module # "group_members"
               /\ JsonOf("group_members") \notin Range(cli'.written)
               /\ FileUntouched(JsonOf("group_members"))
               /\ \A k \in 1..Len(FIXED_MODULES) :
                    FIXED_MODULES[k] # "group_members" =>
                      /\ \E i \in 1..Len(cli'.results) : cli'.results[i].module = FIXED_MODULES[k]
                      /\ JsonOf(FIXED_MODULES[k]) \in Range(cli'.written)
          /\ cli'.no_report =>
               /\ DEFAULT_REPORT_NAME \notin Range(cli'.written)
               /\ FileUntouched(DEFAULT_REPORT_NAME)
      ]_vars

\* both flags set, in a directory that an earlier full run had filled
C18_Witness ==
    /\ cli.op = "run_exports" /\ ~cli.raised
    /\ cli.skip_group_members /\ cli.no_report
    /\ Len(cli.results) = 4
    /\ JsonOf("people") \in DOMAIN cli.out_dir.files
    /\ JsonOf("group_members") \in DOMAIN cli.out_dir.files
    /\ cli.out_dir.files[JsonOf("group_members")] = "stale"

\* ------------------------------------------------------------------ claims about the v21 UI

\* the response is a JSON body with an 'error' field under a 4xx status
IsJsonError(response) ==
    /\ response.sent
    /\ response.content_type = "application/json"
    /\ "error" \in response.keys
    /\ response.status \in 400..499

\* the response is a success: the page, or a JSON body under a 2xx status
IsSuccess(response) ==
    /\ response.sent
    /\ response.status \in 200..299

\* C19: every request the handler rejects or fails to serve is answered with a JSON body that
\* has an 'error' field, under a 4xx status, and no exception leaves do_GET or do_POST: a
\* served request ends either in a success or in such an error response.
C19_FailuresAnsweredAsJsonErrors ==
    http.pc = "served" =>
        /\ http.response.escaped = None
        /\ (IsSuccess(http.response) \/ IsJsonError(http.response))
        /\ (IsSuccess(http.response) => "error" \notin http.response.keys)

\* ------------------------------------------------------------------ claims about the V2 stage list

\* the position of a stage in a stage list, 0 when it is not there
PositionOf(stages, stage) ==
    IF \E i \in 1..Len(stages) : stages[i] = stage
    THEN CHOOSE i \in 1..Len(stages) : stages[i] = stage
    ELSE 0

\* the record enables the optional stage: its payload sets the stage's field
Enables(record, i) ==
    /\ OptionalStages[i][2] \in DOMAIN record.payload
    /\ record.payload[OptionalStages[i][2]] \notin {"", "False"}

\* C20: _build_stages emits ASSIGN_CALLING_LICENSE first and once, emits each optional stage
\* exactly when the record enables it and at most once, and keeps the fixed relative order
\* numbers update, forwarding, voicemail, call intercept, permissions, call-queue memberships:
\* a record with only the license field yields [ASSIGN_CALLING_LICENSE], and a record enabling
\* every optional feature yields the seven stages.
C20_StagesInFixedOrder ==
    v2.pc = "built" =>
        /\ Len(v2.stages) >= 1
        /\ v2.stages[1] = ASSIGN_CALLING_LICENSE
        /\ \A i, j \in 1..Len(v2.stages) : v2.stages[i] = v2.stages[j] => i = j
        /\ \A i \in 2..Len(v2.stages) :
              \E k \in 1..Len(OptionalStages) : v2.stages[i] = OptionalStages[k][1]
        /\ \A k \in 1..Len(OptionalStages) :
              Enables(v2.record, k) <=> PositionOf(v2.stages, OptionalStages[k][1]) > 0
        /\ \A k, l \in 1..Len(OptionalStages) :
              (k < l /\ Enables(v2.record, k) /\ Enables(v2.record, l))
                  => PositionOf(v2.stages, OptionalStages[k][1])
                       < PositionOf(v2.stages, OptionalStages[l][1])
        /\ (v2.record.payload = <<>> => v2.stages = <<ASSIGN_CALLING_LICENSE>>)
        /\ ((\A k \in 1..Len(OptionalStages) : Enables(v2.record, k))
              => v2.stages = <<ASSIGN_CALLING_LICENSE, "APPLY_NUMBERS_UPDATE", "APPLY_FORWARDING",
                               "APPLY_VOICEMAIL", "APPLY_CALL_INTERCEPT", "APPLY_PERMISSIONS",
                               "APPLY_CALL_QUEUE_MEMBERSHIPS">>)

\* the record of the test that enables every optional feature has been given its seven stages
C20_Witness ==
    /\ v2.pc = "built"
    /\ v2.record.payload =
         [alternate_numbers |-> "{}", cf_always_enabled |-> "True", voicemail_enabled |-> "True",
          intercept_enabled |-> "True", incoming_permissions_mode |-> "custom",
          call_queue_names |-> "queue 1"]
    /\ Len(v2.stages) = 7

\* ------------------------------------------------------------------ claims about the V2 stage decision

\* C21: parse_stage_decision maps 'yes' to (YES, None), 'no' to (NO, None) and
\* 'yesbut <file>' to (YESBUT, <file>), whatever the file name.
C21_DecisionParsed ==
    v2.pc = "parsed" =>
        /\ (v2.text = <<"y", "e", "s">> => v2.decision = <<"YES", None>>)
        /\ (v2.text = <<"n", "o">> => v2.decision = <<"NO", None>>)
        /\ \A name \in FileNames :
              v2.text = <<"y", "e", "s", "b", "u", "t", " ">> \o name
                  => v2.decision = <<"YESBUT", name>>

\* 'yesbut o.c' has been parsed
C21_Witness ==
    /\ v2.pc = "parsed"
    /\ v2.text = <<"y", "e", "s", "b", "u", "t", " ", "o", ".", "c">>
    /\ v2.decision[1] = "YESBUT"

\* ------------------------------------------------------------------ claims about the configuration contract

\* C22: ENABLED_MODULES is ('spaces','messages','memberships','attachments') in that order;
\* DEFAULT_CONFIG.as_dict() is exactly contract_version 1, that list, the three toggles all
\* true and the schema versions export 1 and cache 1; and FeatureToggles.as_dict and
\* SchemaVersions.as_dict return exactly the values of their fields.
C22_ConfigContract ==
    config.pc = "serialized" =>
        /\ ENABLED_MODULES = <<"spaces", "messages", "memberships", "attachments">>
        /\ (config.object = DEFAULT_CONFIG =>
              config.data = [ contract_version |-> 1,
                              enabled_modules |-> <<"spaces", "messages", "memberships", "attachments">>,
                              toggles |-> [ group_members |-> TRUE, report_enabled |-> TRUE,
                                            cache_enabled |-> TRUE ],
                              schema_versions |-> [ export |-> 1, cache |-> 1 ] ])
        /\ DOMAIN config.toggles = {"group_members", "report_enabled", "cache_enabled"}
        /\ \A field \in DOMAIN config.toggles : config.toggles[field] = config.object.toggles[field]
        /\ DOMAIN config.versions = {"export", "cache"}
        /\ \A field \in DOMAIN config.versions :
              config.versions[field] = config.object.schema_versions[field]

\* the toggles of the serialization test (group_members and cache_enabled off) were serialized
C22_Witness ==
    /\ config.pc = "serialized"
    /\ config.object.toggles = FeatureToggles(FALSE, TRUE, FALSE)
    /\ config.toggles.report_enabled

\* ------------------------------------------------------------------ claims about a run

\* the plan row of a run_single_action outcome
RowOf(r) == PlanRows(locations, users, workspaces, policy)[r.action_id + 1]

\* C23: within one run(dry_run=False) an ID resolved by one action is memoized in the
\* payload and reused by the later actions of the same entity: once an action of the run has
\* looked an entity up by name (location, route group, person, workspace) and stored its ID,
\* the next action of that entity does not make that lookup again.
C23_LookupOncePerRun ==
    [][ ( /\ run.pc = "loop" /\ run'.pc = "loop" /\ run'.idx = run.idx + 1
          /\ IsCall(ret) /\ IsCall(ret')
          /\ ret.raised = None /\ ret'.raised = None
          /\ RowOf(ret).entity_key = RowOf(ret').entity_key )
        => \A kind \in {"location", "route_group", "person", "workspace"} :
             ( /\ LookupCall(kind) \in Range(ret.calls)
               /\ Truthy(Get(ret.payload, IdKey(kind))) )
             => LookupCall(kind) \notin Range(ret'.calls) ]_vars

\* C24: action_state.json is keyed by action index and written after every attempt:
\* run_single_action(i) with a valid index i ends with entry i reflecting that call's outcome
\* (its stage and entity, status 'failed' with the error when one occurred, else 'applied' or
\* 'previewed'), whether the apply succeeded or failed, and it leaves the entries recorded
\* before for every other index as they were.
C24_EntryWrittenOnEveryCall ==
    [][ (IsCall(ret') /\ ret'.action_id \in 0..(PlanLength - 1)) =>
          /\ action_state'.exists
          /\ DOMAIN action_state'.items = DOMAIN ItemsOf(action_state) \cup {ret'.action_id}
          /\ \A k \in DOMAIN ItemsOf(action_state) \ {ret'.action_id} :
                action_state'.items[k] = ItemsOf(action_state)[k]
          /\ action_state'.items[ret'.action_id] =
               [ stage |-> RowOf(ret').stage, entity_key |-> RowOf(ret').entity_key,
                 status |-> IF ret'.exc # None THEN "failed"
                            ELSE IF ret'.apply THEN "applied" ELSE "previewed",
                 error |-> ret'.exc ]
      ]_vars

\* ------------------------------------------------------------------ claims about the outgoing profile

OutgoingStages ==
    {"LOCATION_OUTGOING_PERMISSION_DEFAULT", "USER_OUTGOING_PERMISSION_OVERRIDE",
     "WORKSPACE_OUTGOING_PERMISSION_OVERRIDE"}

\* the plan row asks for an outgoing profile that static_policy.json does not define
ProfileMissing(row) ==
    /\ row.stage \in OutgoingStages
    /\ Or(Or(Get(row.payload, "outgoing_profile"), Get(row.payload, "default_outgoing_profile")),
          policy.default_outgoing_profile) \notin policy.outgoing_profiles

\* the entity of the action was resolved: its ID is in the payload the call ended with
EntityResolved(r) ==
    \E key \in {"location_id", "user_id", "workspace_id"} : Truthy(Get(r.payload, key))

\* C25: an outgoing profile missing from the policy is not detected when planning: with the
\* input files present load_plan_rows returns the plan, the action of the missing profile in
\* it, and previewing that action reports no error. The error surfaces when the action is
\* applied: the call returns with the ValueError as the action's error and its entry
\* 'failed', it makes no mutating call, and the remote state, with what the earlier stages of
\* the entity had changed, stays as it was (nothing is rolled back).
C25_MissingProfileFailsAtApply ==
    [][ /\ (ret'.op = "load_plan_rows" /\ ret'.raised = None) =>
              /\ plan_rows' = PlanRows(locations, users, workspaces, policy)
              /\ remote' = remote
        /\ (IsCall(ret') /\ ret'.raised = None /\ ProfileMissing(RowOf(ret'))) =>
              /\ remote' = remote
              /\ \A i \in 1..Len(ret'.calls) : ret'.calls[i] \notin MutatingCalls
              /\ (~ret'.apply => ret'.error = None)
              /\ (ret'.apply /\ EntityResolved(ret')) =>
                    /\ ret'.error = "Outgoing profile not found in static_policy.json"
                    /\ ~ret'.changed
                    /\ action_state'.items[ret'.action_id].status = "failed"
                    /\ action_state'.items[ret'.action_id].error = ret'.error
      ]_vars

\* the location was created and enabled by its first action, and the action of its missing
\* default profile has then failed, the location still there
C25_Witness ==
    /\ IsCall(ret) /\ ret.apply /\ ret.raised = None
    /\ ret.stage = "LOCATION_OUTGOING_PERMISSION_DEFAULT"
    /\ ret.error = "Outgoing profile not found in static_policy.json"
    /\ Entry(ret).status = "failed"
    /\ 0 \in DOMAIN action_state.items
    /\ action_state.items[0].status = "applied"
    /\ remote.loc_count = 1 /\ remote.calling

\* ------------------------------------------------------------------ claims about reading back

\* the positions of the mutating calls in a call log
MutatingAt(calls) == { i \in 1..Len(calls) : calls[i] \in MutatingCalls }

\* every mutating call of the log has a remote call before it and a remote state read after it
ReadAround(calls) ==
    \A i \in MutatingAt(calls) :
        /\ \E j \in 1..(i - 1) : calls[j] \notin MutatingCalls
        /\ \E k \in (i + 1)..Len(calls) : calls[k] \notin (MutatingCalls \cup LookupCalls)

\* C26: remote state is read again after a mutating call. In run_single_action(apply=True)
\* without error, the reads of `before` precede the stage's mutating calls, a remote read
\* follows them, and `after` is what the remote platform holds once the call is over, not a
\* local value. configurar_desvio_prefijo53_usuario makes exactly the calls read, configure,
\* read in that order and returns both snapshots, `after` showing the configured forwarding.
C26_ReadAgainAfterMutation ==
    [][ /\ (IsCall(ret') /\ desvio' = desvio /\ ret'.raised = None /\ ret'.error = None) =>
              /\ ReadAround(ret'.calls)
              /\ ret'.after = ReadCurrentState(Ctx(remote', ret'.payload, 0), ret'.stage).val
              /\ (MutatingAt(ret'.calls) # {} /\ remote' # remote) => ret'.changed
        /\ (desvio' # desvio /\ desvio'.raised = None) =>
              /\ desvio'.calls = << "person_settings.forwarding.read",
                                    "person_settings.forwarding.configure",
                                    "person_settings.forwarding.read" >>
              /\ desvio'.result.status = "success"
              /\ desvio'.result.api_response.before =
                   [forwarding |-> Setting([remote |-> remote], "person_settings.forwarding.configure")]
              /\ desvio'.result.api_response.after = [forwarding |-> "configured"]
              /\ "person_settings.forwarding.configure" \in remote'.config
      ]_vars

\* the script has configured the forwarding of a person whose forwarding was the default,
\* after the engine had applied an action
C26_Witness ==
    /\ desvio.pc = "done" /\ desvio.raised = None
    /\ desvio.result.api_response.before = [forwarding |-> "default"]
    /\ desvio.result.api_response.after = [forwarding |-> "configured"]
    /\ IsCall(ret) /\ ret.apply /\ ret.error = None /\ ret.changed

\* ------------------------------------------------------------------ claims about the order of a run

\* C27: run(dry_run=False) processes the actions one at a time in plan order. Each step of
\* the loop is the whole run_single_action of the next row: when it starts, the outcomes of
\* all earlier actions of the run are in action_state.json and in results; results[k] is the
\* outcome of action k; and the step's remote calls, payload and action_state.json entry are
\* those of that one action, every other entry of the file staying as it was.
C27_OneActionAtATime ==
    [][ (run'.pc \in {"loop", "returned", "raised"} /\ ~run'.dry_run) =>
          /\ Len(run'.results) = run'.idx
          /\ \A k \in 1..Len(run'.results) :
                /\ run'.results[k].action_id = k - 1
                /\ run'.rows[k].action_id = k - 1
                /\ (k - 1) \in DOMAIN ItemsOf(action_state')
                /\ action_state'.items[k - 1].stage = run'.rows[k].stage
                /\ action_state'.items[k - 1].entity_key = run'.rows[k].entity_key
                /\ action_state'.items[k - 1].error = run'.results[k].error
          /\ (run.pc = "loop" /\ run'.idx = run.idx + 1) =>
                /\ ret'.action_id = run.idx
                /\ ret'.stage = run.rows[run.idx + 1].stage
                /\ run'.results = Append(run.results, ResultOf(ret', run.idx))
                /\ DOMAIN ItemsOf(action_state') = DOMAIN ItemsOf(action_state) \cup {run.idx}
                /\ \A k \in DOMAIN ItemsOf(action_state) \ {run.idx} :
                      action_state'.items[k] = action_state.items[k]
      ]_vars

\* a run of at least three actions has returned, one of its actions having failed
C27_Witness ==
    /\ run.pc = "returned" /\ ~run.dry_run
    /\ Len(run.results) >= 3
    /\ \E k \in 1..(Len(run.results) - 1) : run.results[k].error # None

\* ------------------------------------------------------------------ claims about starting jobs

\* C28: a job is never processed by two background threads at once, whatever the
\* interleaving of the start requests and of the threads they start.
C28_OneThreadPerJob ==
    jobs.pc = "serving" =>
        \A job_id \in JobIds : Cardinality(Processing(jobs, job_id)) <= 1

\* ------------------------------------------------------------------ claims about unresolved entities

PersonOrWorkspaceStages ==
    {"USER_LEGACY_INTERCOM_SECONDARY", "USER_LEGACY_FORWARD_PREFIX_53", "USER_OUTGOING_PERMISSION_OVERRIDE",
     "WORKSPACE_LEGACY_INTERCOM_SECONDARY", "WORKSPACE_LEGACY_FORWARD_PREFIX_53",
     "WORKSPACE_OUTGOING_PERMISSION_OVERRIDE"}

\* the location stages whose reader and apply branch call _require_location_id
LocationRequiredStages ==
    {"LOCATION_PSTN_CONFIGURE", "LOCATION_NUMBERS_ADD_DISABLED", "LOCATION_MAIN_DDI_ASSIGN",
     "LOCATION_INTERNAL_CALLING_CONFIG", "LOCATION_OUTGOING_PERMISSION_DEFAULT"}

\* the entity of the row cannot be resolved: the row carries no ID and the lookup finds nothing
Unresolvable(row) ==
    /\ \A key \in {"location_id", "user_id", "workspace_id"} : ~Truthy(Get(row.payload, key))
    /\ CASE row.entity_type = "LOCATION" -> remote.loc_count = 0
         [] row.entity_type = "USER" -> ~remote.person
         [] row.entity_type = "WORKSPACE" -> ~remote.workspace
         [] OTHER -> FALSE

\* the call made no mutating call and left the platform as it was
NothingMutated(r) == Range(r.calls) \cap MutatingCalls = {}

\* the call was recorded as applied without error
RecordedApplied(r, state_file) ==
    /\ r.raised = None /\ r.error = None /\ ~r.changed
    /\ state_file.items[r.action_id].status = "applied"
    /\ state_file.items[r.action_id].error = None

\* the call failed with 'location not found': raised by the read of `before`, or recorded
\* as the error of the action
LocationNotFound(r) ==
    \/ r.raised = "location not found"
    \/ r.raised = None /\ r.error = "location not found"

\* C29 as stated: applying a user or workspace action whose person or workspace cannot be
\* resolved makes no mutating call and is recorded as applied, without error and unchanged,
\* whereas applying any location action whose location cannot be resolved fails with
\* 'location not found' without a mutating call.
C29_UnresolvedEntityAnyLocationStage ==
    [][ ( /\ IsCall(ret') /\ ret'.apply /\ faults' = faults
          /\ ret'.action_id \in 0..(PlanLength - 1)
          /\ Unresolvable(RowOf(ret')) ) =>
          /\ ret'.stage \in PersonOrWorkspaceStages =>
                NothingMutated(ret') /\ remote' = remote /\ RecordedApplied(ret', action_state')
          /\ RowOf(ret').entity_type = "LOCATION" =>
                NothingMutated(ret') /\ remote' = remote /\ LocationNotFound(ret')
      ]_vars

\* C29 (amended): the same for users and workspaces; of the location actions, those of the
\* stages that require the location (PSTN configure, numbers add, main DDI assign, internal
\* calling config, outgoing permission default) fail with 'location not found' without a
\* mutating call.
C29_UnresolvedEntity ==
    [][ ( /\ IsCall(ret') /\ ret'.apply /\ faults' = faults
          /\ ret'.action_id \in 0..(PlanLength - 1)
          /\ Unresolvable(RowOf(ret')) ) =>
          /\ ret'.stage \in PersonOrWorkspaceStages =>
                NothingMutated(ret') /\ remote' = remote /\ RecordedApplied(ret', action_state')
          /\ ret'.stage \in LocationRequiredStages =>
                NothingMutated(ret') /\ remote' = remote /\ LocationNotFound(ret')
      ]_vars

\* the outgoing permission override of a workspace that does not exist was applied: the
\* lookup found nothing, the profile (missing from the policy) was never looked at, and the
\* action was recorded as applied
C29_Witness ==
    /\ IsCall(ret) /\ ret.apply
    /\ ret.stage = "WORKSPACE_OUTGOING_PERMISSION_OVERRIDE"
    /\ ~remote.workspace
    /\ ProfileMissing(RowOf(ret))
    /\ "workspaces.list" \in Range(ret.calls)
    /\ NothingMutated(ret)
    /\ RecordedApplied(ret, action_state)

\* ------------------------------------------------------------------ claims about the run summary

\* C30: run(dry_run=True) makes no remote call and leaves action_state.json as it is (absent
\* or not): its steps change neither the platform nor the file, call run_single_action for no
\* action and keep results empty. When run() returns, in either mode, plan.csv holds the plan
\* and run_state.json the mode, completed_count = planned_count = the number of planned
\* actions, the results of the loop, and failed_count = the number of results that carry an
\* error; for a dry run that is mode 'dry_run', no result and failed_count 0, and no other
\* file is written.
C30_DryRunTouchesNothing ==
    [][ /\ (run' # run /\ run'.dry_run) =>
              /\ remote' = remote
              /\ action_state' = action_state
              /\ ret' = ret
              /\ run'.results = <<>>
        /\ (run' # run /\ run'.pc = "returned") =>
              /\ plan_csv' = [exists |-> TRUE, rows |-> PlanRows(locations, users, workspaces, policy)]
              /\ run_state'.exists
              /\ run_state'.mode = (IF run'.dry_run THEN "dry_run" ELSE "apply")
              /\ run_state'.completed_count = PlanLength
              /\ run_state'.planned_count = PlanLength
              /\ run_state'.planned_actions = PlanRows(locations, users, workspaces, policy)
              /\ run_state'.results = run'.results
              /\ run_state'.failed_count =
                    Cardinality({ i \in 1..Len(run'.results) : run'.results[i].error # None })
              /\ run'.dry_run =>
                    /\ run_state'.results = <<>>
                    /\ run_state'.failed_count = 0
                    /\ input_files' = input_files
      ]_vars

\* a dry run over a plan of several actions has returned: no action was called, there is no
\* action_state.json, and plan.csv and run_state.json are written
C30_Witness ==
    /\ run.pc = "returned" /\ run.dry_run
    /\ Len(run.rows) >= 3
    /\ ret = NoCall
    /\ ~action_state.exists
    /\ plan_csv.exists /\ run_state.exists
    /\ run_state.mode = "dry_run" /\ run_state.planned_count = Len(run.rows)

====
